---- MODULE Spec2Model ----
(***************************************************************************)
(* State-machine model of src/src/github_client.py: the response cache     *)
(* store (GitHubResponseCache), the retrying fetcher                       *)
(* (_request_with_retries) and the cache policy classifier.                *)
(*                                                                         *)
(* Conventions.  Python strings that the code inspects character by        *)
(* character (git refs, query values) are sequences of one-character       *)
(* strings.  Python None is the string "None" where the value is an        *)
(* optional header/string, the empty sequence where it is an optional      *)
(* character string, and NoTime where it is an optional timestamp.         *)
(* Retry delays are counted in milliseconds so that 0.5 s stays integral.  *)
(***************************************************************************)
EXTENDS Integers, Sequences, FiniteSets, TLC

VARIABLES
    cache,      \* the GitHubResponseCache object: its constructor arguments
    store,      \* table github_response_cache: cache_key -> row
    clock,      \* time.time()
    scenario,   \* what the environment of this run may do (fixed by Init)
    f,          \* per caller: the activation record of _request_with_retries
    started,    \* number of fetches started so far
    netlog,     \* history: per cache key, the network calls made for it
    pure,       \* last direct call of a side-effect-free operation
    call        \* the activation of a public fetcher that makes several fetches

vars == <<cache, store, clock, scenario, f, started, netlog, pure, call>>

-----------------------------------------------------------------------------
(* Bounds of the model *)

MaxClock == 3
MaxFetches == 2
MaxPatchLines == 4
MaxFullPages == 2
MaxBatchFiles == 2
MaxVersionLen == 4
MaxBodyLines == 6
MaxHeaderLine == 12

-----------------------------------------------------------------------------
(* Program constants *)

GITHUB_MAX_RETRIES == 3
DEFAULT_RETRY_BACKOFF_MILLIS == 500
ShaMinLen == 7
ShaMaxLen == 40
PER_PAGE == 100
MISSING_PATCH_EXAMPLES == 5

None == "None"
NoTime == 0 - 1

Procs == {1, 2}

-----------------------------------------------------------------------------
(* Character strings *)

Chars(c, n) == [i \in 1..n |-> c]

LowerHex == {"a", "b", "c", "d", "e", "f",
             "0", "1", "2", "3", "4", "5", "6", "7", "8", "9"}

\* re.compile(r"^[a-f0-9]{7,40}$").fullmatch(ref)
COMMIT_SHA_PATTERN(ref) ==
    /\ Len(ref) >= ShaMinLen
    /\ Len(ref) <= ShaMaxLen
    /\ \A i \in 1..Len(ref) : ref[i] \in LowerHex

-----------------------------------------------------------------------------
(* Endpoints: the path as its "/"-separated segments, the query as its     *)
(* name=value pairs in order.                                              *)

PullEndpoint(owner, repo) ==
    [path |-> <<"repos", owner, repo, "pulls", "42">>, query |-> <<>>]

FilesEndpoint(owner, repo, page) ==
    [path  |-> <<"repos", owner, repo, "pulls", "42", "files">>,
     query |-> << <<"per_page", <<"1", "0", "0">> >>, <<"page", page>> >>]

ContentsEndpoint(owner, repo, file, ref) ==
    [path  |-> <<"repos", owner, repo, "contents", file>>,
     query |-> << <<"ref", ref>> >>]

UserEndpoint == [path |-> <<"user">>, query |-> <<>>]

\* "/contents/" in urlsplit(endpoint).path
HasContentsSegment(path) ==
    \E i \in 1..(Len(path) - 1) : path[i] = "contents"

\* parse_qs(query).get(name): the non-blank values given for name, in order
parse_qs_get(query, name) ==
    LET hit(kv) == kv[1] = name /\ kv[2] # <<>>
        kept == SelectSeq(query, hit)
    IN  [i \in 1..Len(kept) |-> kept[i][2]]

-----------------------------------------------------------------------------
(* GitHubResponseCache.policy_for_endpoint *)

CachePolicy(ttl, imm) == [ttl_seconds |-> ttl, immutable |-> imm]

policy_for_endpoint(c, endpoint) ==
    IF HasContentsSegment(endpoint.path)
    THEN LET ref_values == parse_qs_get(endpoint.query, "ref")
             ref == IF ref_values # <<>> THEN ref_values[1] ELSE <<>>
         IN  IF ref # <<>> /\ COMMIT_SHA_PATTERN(ref)
             THEN CachePolicy(c.immutable_content_ttl_seconds, TRUE)
             ELSE CachePolicy(c.branch_content_ttl_seconds, FALSE)
    ELSE CachePolicy(c.mutable_ttl_seconds, FALSE)

-----------------------------------------------------------------------------
(* HTTP values *)

GITHUB_API_VERSION == "2022-11-28"
JSON_ACCEPT == "application/vnd.github+json"
DIFF_ACCEPT == "application/vnd.github.diff"

Body(rep, v) == [rep |-> rep, v |-> v]
NoBody == Body("empty", 0)

\* The Retry-After header as sent: absent, a decimal number of seconds, the
\* literal "nan", the literal "inf", or text that is no number (an HTTP date).
RetryAfter(kind, millis) == [kind |-> kind, millis |-> millis]
NoRetryAfter == RetryAfter("absent", 0)

Response(status, body, etag, last_modified, retry_after) ==
    [status_code |-> status, body |-> body, etag |-> etag,
     last_modified |-> last_modified, retry_after |-> retry_after]

\* An optional float: Python None, a finite number, NaN or +infinity.
NoFloat == [kind |-> "none", millis |-> 0]
Finite(millis) == [kind |-> "finite", millis |-> millis]
NaN == [kind |-> "nan", millis |-> 0]
Infinity == [kind |-> "inf", millis |-> 0]

-----------------------------------------------------------------------------
(* The retry policy *)

\* a classifier that would retry every error status
_is_retryable_status_any_error(status_code) == status_code >= 400

_is_retryable_status(status_code) ==
    status_code = 429 \/ (500 <= status_code /\ status_code < 600)

\* float(retry_after): ValueError for text; "nan" and "inf" are accepted.
\* NaN < 0 is false, so NaN passes the sign test.
_parse_retry_after_seconds(response) ==
    LET retry_after == response.retry_after
    IN  CASE retry_after.kind = "absent" -> NoFloat
          [] retry_after.kind = "text" -> NoFloat
          [] retry_after.kind = "nan" -> NaN
          [] retry_after.kind = "inf" -> Infinity
          [] OTHER -> IF retry_after.millis < 0
                      THEN NoFloat
                      ELSE Finite(retry_after.millis)

_compute_retry_delay_seconds(response, attempt_number) ==
    LET retry_after_seconds == _parse_retry_after_seconds(response)
    IN  IF retry_after_seconds # NoFloat
        THEN retry_after_seconds
        ELSE Finite(DEFAULT_RETRY_BACKOFF_MILLIS * (2 ^ (attempt_number - 1)))

\* _raise_http_error: the typed error for a non-success response
_raise_http_error(response, endpoint) ==
    [kind |-> IF response.status_code = 429
              THEN "GitHubRateLimitError" ELSE "GitHubApiError",
     status_code |-> response.status_code,
     endpoint |-> endpoint]

-----------------------------------------------------------------------------
(* The cache store *)

Absent == [absent |-> TRUE]

\* a key that would leave the accept header out
_cache_key_without_accept(endpoint, accept_header) ==
    <<"GET", endpoint, "", GITHUB_API_VERSION>>

_cache_key(endpoint, accept_header) ==
    <<"GET", endpoint,
      IF accept_header = None THEN "" ELSE accept_header,
      GITHUB_API_VERSION>>

\* an expiry that would apply the TTL to immutable entries too
_expires_at_for_policy_ttl_only(now, policy) ==
    IF policy.ttl_seconds = NoTime THEN NoTime ELSE now + policy.ttl_seconds

_expires_at_for_policy(now, policy) ==
    IF policy.immutable \/ policy.ttl_seconds = NoTime
    THEN NoTime
    ELSE now + policy.ttl_seconds

\* a freshness test that would treat "no expiry" as expired
_is_fresh_cache_entry_none_is_stale(entry, now) ==
    entry.expires_at # NoTime /\ now < entry.expires_at

_is_fresh_cache_entry(entry, now) ==
    IF entry.expires_at = NoTime THEN TRUE ELSE now < entry.expires_at

\* GitHubResponseCache.get: the row's seven payload columns, or None
CacheGet(rows, cache_key) ==
    IF cache_key \in DOMAIN rows
    THEN LET row == rows[cache_key]
         IN  [status_code |-> row.status_code, body |-> row.body,
              etag |-> row.etag, last_modified |-> row.last_modified,
              fetched_at |-> row.fetched_at, expires_at |-> row.expires_at,
              immutable |-> row.immutable]
    ELSE Absent

\* an upsert that would keep the validators of an existing row
CacheUpsert_keeps_validators(rows, cache_key, endpoint, accept_header, response, fetched_at, expires_at, immutable) ==
    LET kept == cache_key \in DOMAIN rows
        row == [endpoint |-> endpoint, accept_header |-> accept_header,
                status_code |-> response.status_code, body |-> response.body,
                etag |-> IF kept THEN rows[cache_key].etag ELSE response.etag,
                last_modified |-> IF kept THEN rows[cache_key].last_modified
                                  ELSE response.last_modified,
                fetched_at |-> fetched_at, expires_at |-> expires_at,
                immutable |-> immutable]
    IN  [k \in DOMAIN rows \cup {cache_key} |->
            IF k = cache_key THEN row ELSE rows[k]]

\* an upsert that would keep an existing row (INSERT OR IGNORE)
CacheUpsert_insert_only(rows, cache_key, endpoint, accept_header, response, fetched_at, expires_at, immutable) ==
    LET row == [endpoint |-> endpoint, accept_header |-> accept_header,
                status_code |-> response.status_code, body |-> response.body,
                etag |-> response.etag,
                last_modified |-> response.last_modified,
                fetched_at |-> fetched_at, expires_at |-> expires_at,
                immutable |-> immutable]
    IN  [k \in DOMAIN rows \cup {cache_key} |->
            IF k \in DOMAIN rows THEN rows[k] ELSE row]

\* GitHubResponseCache.upsert: INSERT ... ON CONFLICT(cache_key) DO UPDATE
CacheUpsert(rows, cache_key, endpoint, accept_header, response, fetched_at, expires_at, immutable) ==
    LET row == [endpoint |-> endpoint, accept_header |-> accept_header,
                status_code |-> response.status_code, body |-> response.body,
                etag |-> response.etag,
                last_modified |-> response.last_modified,
                fetched_at |-> fetched_at, expires_at |-> expires_at,
                immutable |-> immutable]
    IN  [k \in DOMAIN rows \cup {cache_key} |->
            IF k = cache_key THEN row ELSE rows[k]]

\* a touch that would update fetched_at only
CacheTouch_keeps_expiry(rows, cache_key, fetched_at, expires_at) ==
    [k \in DOMAIN rows |->
        IF k = cache_key
        THEN [rows[k] EXCEPT !.fetched_at = fetched_at]
        ELSE rows[k]]

\* GitHubResponseCache.touch: UPDATE ... WHERE cache_key = ?
CacheTouch(rows, cache_key, fetched_at, expires_at) ==
    [k \in DOMAIN rows |->
        IF k = cache_key
        THEN [rows[k] EXCEPT !.fetched_at = fetched_at,
                             !.expires_at = expires_at]
        ELSE rows[k]]

\* a pruning that would keep the entry that expires exactly now
CacheDeleteExpired_keeps_boundary(rows, now) ==
    LET kept == {k \in DOMAIN rows :
                    ~(rows[k].expires_at # NoTime /\ rows[k].expires_at < now)}
    IN  [k \in kept |-> rows[k]]

\* GitHubResponseCache.delete_expired
CacheDeleteExpired(rows, now) ==
    LET kept == {k \in DOMAIN rows :
                    ~(rows[k].expires_at # NoTime /\ rows[k].expires_at <= now)}
    IN  [k \in kept |-> rows[k]]

\* _response_from_cache: the cached payload as a response
_response_from_cache(cached) ==
    Response(cached.status_code, cached.body,
             IF cached.etag # None /\ cached.etag # "" THEN cached.etag ELSE None,
             IF cached.last_modified # None /\ cached.last_modified # ""
             THEN cached.last_modified ELSE None,
             NoRetryAfter)

-----------------------------------------------------------------------------
(* The server behind client.get.  It answers with any status of the        *)
(* scenario; a body is in the representation the Accept header asked for   *)
(* (the raw diff for DIFF_ACCEPT, JSON otherwise).                         *)

RepresentationFor(accept) == IF accept = DIFF_ACCEPT THEN "diff" ELSE "json"

ServerResponses(sc, request_headers) ==
    LET rep == RepresentationFor(request_headers.Accept)
        ok == {Response(200, Body(rep, v), val[1], val[2], NoRetryAfter) :
                  v \in sc.versions, val \in sc.validators}
        limited == {Response(429, NoBody, None, None, ra) : ra \in sc.retry_after}
        other == {Response(st, IF st = 404 THEN Body("json", 0) ELSE NoBody,
                           None, None, NoRetryAfter) : st \in {304, 403, 404, 502}}
    IN  {r \in ok \cup limited \cup other : r.status_code \in sc.statuses}

-----------------------------------------------------------------------------
(* _request_with_retries, one activation per caller *)

NoHeaders == [Accept |-> None, If_None_Match |-> None, If_Modified_Since |-> None]
NoOutcome == [kind |-> "none"]
Returned(response, from_cache) ==
    [kind |-> "response", status_code |-> response.status_code,
     body |-> response.body, etag |-> response.etag,
     last_modified |-> response.last_modified, from_cache |-> from_cache]

NoCall == [op |-> "none"]

IdleFetch ==
    [pc |-> "idle", endpoint |-> UserEndpoint, accept_header |-> None,
     max_attempts |-> GITHUB_MAX_RETRIES, allow_not_found |-> FALSE,
     use_cache |-> FALSE, now |-> 0, cache_entry |-> Absent,
     request_headers |-> NoHeaders, attempt_number |-> 0,
     response |-> Response(0, NoBody, None, None, NoRetryAfter),
     delay_seconds |-> NoFloat, outcome |-> NoOutcome,
     \* history of this activation
     row_at_start |-> Absent, read_failed |-> FALSE, write_failed |-> FALSE,
     calls |-> 0, statuses |-> <<>>, sleeps |-> <<>>]

Key(p) == _cache_key(f[p].endpoint, f[p].accept_header)

\* Storage operations succeed, or (with scenario.faults) raise sqlite3.Error.
IoOutcomes == IF scenario.faults THEN BOOLEAN ELSE {TRUE}

EmptyLog == [settled |-> FALSE, status_code |-> 0, body |-> NoBody,
             later_calls |-> 0]
Log(k) == IF k \in DOMAIN netlog THEN netlog[k] ELSE EmptyLog
LogWith(k, entry) ==
    [x \in DOMAIN netlog \cup {k} |-> IF x = k THEN entry ELSE netlog[x]]
\* the first response a fetch of key k returned to its caller
LogReturn(k, response) ==
    IF Log(k).settled THEN netlog
    ELSE LogWith(k, [Log(k) EXCEPT !.settled = TRUE,
                                   !.status_code = response.status_code,
                                   !.body = response.body])

\* validators that would send If-Modified-Since next to If-None-Match
ConditionalHeaders_sends_both(accept_header, cache_entry) ==
    LET accept == IF accept_header # None /\ accept_header # ""
                  THEN accept_header ELSE None
        usable == cache_entry # Absent /\ ~cache_entry.immutable
        has_etag == usable /\ cache_entry.etag # None /\ cache_entry.etag # ""
        has_lm == usable /\ cache_entry.last_modified # None
                      /\ cache_entry.last_modified # ""
    IN  [Accept |-> accept,
         If_None_Match |-> IF has_etag THEN cache_entry.etag ELSE None,
         If_Modified_Since |-> IF has_lm THEN cache_entry.last_modified ELSE None]

\* the validators of lines 646-650
ConditionalHeaders(accept_header, cache_entry) ==
    LET accept == IF accept_header # None /\ accept_header # ""
                  THEN accept_header ELSE None
        usable == cache_entry # Absent /\ ~cache_entry.immutable
        has_etag == usable /\ cache_entry.etag # None /\ cache_entry.etag # ""
        has_lm == usable /\ ~has_etag /\ cache_entry.last_modified # None
                      /\ cache_entry.last_modified # ""
    IN  [Accept |-> accept,
         If_None_Match |-> IF has_etag THEN cache_entry.etag ELSE None,
         If_Modified_Since |-> IF has_lm THEN cache_entry.last_modified ELSE None]

\* a cache read that would let a stored 404 answer every caller
UsableEntry_serves_not_found(entry, allow_not_found) == entry

\* lines 629-634: a cached 404 is dropped unless the caller allows "not found"
UsableEntry(entry, allow_not_found) ==
    IF entry # Absent /\ entry.status_code = 404 /\ ~allow_not_found
    THEN Absent
    ELSE entry

\* lines 623-627: cache_backend.get inside try/except sqlite3.Error; without
\* a cache backend, or when the read raises, cache_entry stays None
GuardedGet(rows, cache_key, use_cache, read_ok) ==
    IF use_cache /\ read_ok THEN CacheGet(rows, cache_key) ELSE Absent

\* a handler that would let sqlite3.Error escape
SwallowStorageError_reraises(write_ok, outcome) ==
    IF write_ok THEN outcome ELSE [kind |-> "sqlite3.Error"]

\* lines 664-665, 687-688, 706-707: "except sqlite3.Error: pass", after which
\* the function returns what it was about to return
SwallowStorageError(write_ok, outcome) == outcome

\* lines 619-652: read the clock and the cache, answer from a fresh entry or
\* prepare the request
Start(p) ==
    /\ p \in scenario.procs
    /\ f[p].pc \in {"idle", "returned", "raised"}
    /\ started < scenario.fetches
    /\ \E shape \in scenario.shapes, max_attempts \in scenario.attempts,
          use_cache \in scenario.use_cache, read_ok \in IoOutcomes :
        LET cache_key == _cache_key(shape.endpoint, shape.accept_header)
            now == clock
            row == GuardedGet(store, cache_key, use_cache, read_ok)
            cache_entry == UsableEntry(row, shape.allow_not_found)
            hit == cache_entry # Absent /\ _is_fresh_cache_entry(cache_entry, now)
            base == [IdleFetch EXCEPT
                        !.endpoint = shape.endpoint,
                        !.accept_header = shape.accept_header,
                        !.allow_not_found = shape.allow_not_found,
                        !.max_attempts = max_attempts,
                        !.use_cache = use_cache,
                        !.now = now,
                        !.cache_entry = cache_entry,
                        !.row_at_start = IF use_cache THEN CacheGet(store, cache_key)
                                         ELSE Absent,
                        !.read_failed = use_cache /\ ~read_ok]
        IN  /\ f' = [f EXCEPT ![p] =
                IF hit
                THEN [base EXCEPT
                        !.pc = "returned",
                        !.outcome = Returned(_response_from_cache(cache_entry), TRUE)]
                ELSE [base EXCEPT
                        !.pc = "request",
                        !.attempt_number = 1,
                        !.request_headers =
                            ConditionalHeaders(shape.accept_header, cache_entry)]]
            /\ netlog' = IF hit
                         THEN LogReturn(cache_key, _response_from_cache(cache_entry))
                         ELSE netlog
    /\ started' = started + 1
    /\ UNCHANGED <<call, cache, store, clock, scenario, pure>>

\* line 654: client.get(endpoint, headers=request_headers)
Request(p) ==
    /\ f[p].pc = "request"
    /\ \E response \in ServerResponses(scenario, f[p].request_headers) :
        f' = [f EXCEPT ![p] =
                [@ EXCEPT !.pc = "handle",
                          !.response = response,
                          !.calls = @ + 1,
                          !.statuses = Append(@, response.status_code)]]
    /\ netlog' = LogWith(Key(p),
                    [Log(Key(p)) EXCEPT
                        !.later_calls = IF Log(Key(p)).settled THEN @ + 1 ELSE @])
    /\ UNCHANGED <<call, cache, store, clock, scenario, started, pure>>

\* lines 655-714: classify the response
Handle(p) ==
    /\ f[p].pc = "handle"
    /\ LET me == f[p]
           response == me.response
           cache_key == Key(p)
           revalidated == response.status_code = 304 /\ me.cache_entry # Absent
           success == response.status_code < 400
           not_found == me.allow_not_found /\ response.status_code = 404
           should_retry == /\ _is_retryable_status(response.status_code)
                           /\ me.attempt_number < me.max_attempts
       IN
       IF revalidated \/ success \/ not_found
       THEN \E write_ok \in IoOutcomes,
               second_read \in {clock, IF clock < MaxClock THEN clock + 1 ELSE clock} :
            LET policy == policy_for_endpoint(cache, me.endpoint)
                fetched_at == clock
                expires_at == _expires_at_for_policy(second_read, policy)
                answer == IF revalidated
                          THEN _response_from_cache(me.cache_entry)
                          ELSE response
            IN  /\ store' =
                    IF ~me.use_cache \/ ~write_ok THEN store
                    ELSE IF revalidated
                         THEN CacheTouch(store, cache_key, fetched_at, expires_at)
                         ELSE CacheUpsert(store, cache_key, me.endpoint,
                                          me.accept_header, response, fetched_at,
                                          expires_at, policy.immutable)
                /\ clock' = IF me.use_cache THEN second_read ELSE clock
                /\ f' = [f EXCEPT ![p] =
                            [@ EXCEPT !.pc = "returned",
                                      !.write_failed = me.use_cache /\ ~write_ok,
                                      !.outcome =
                                          SwallowStorageError(
                                              ~me.use_cache \/ write_ok,
                                              Returned(answer, revalidated))]]
                /\ netlog' = LogReturn(cache_key, answer)
       ELSE /\ f' = [f EXCEPT ![p] =
                IF should_retry
                THEN [@ EXCEPT !.pc = "sleep",
                               !.delay_seconds =
                                   _compute_retry_delay_seconds(response,
                                                                me.attempt_number)]
                ELSE [@ EXCEPT !.pc = "raised",
                               !.outcome = _raise_http_error(response, me.endpoint)]]
            /\ UNCHANGED <<store, clock, netlog>>
    /\ UNCHANGED <<call, cache, scenario, started, pure>>

\* a wait that would evict the entry of the key before the next attempt
Sleep_evicts_entry(p) ==
    /\ f[p].pc = "sleep"
    /\ f' = [f EXCEPT ![p] =
            CASE f[p].delay_seconds.kind = "nan" ->
                    [@ EXCEPT !.pc = "raised", !.outcome = [kind |-> "ValueError"]]
              [] f[p].delay_seconds.kind = "inf" ->
                    [@ EXCEPT !.pc = "raised", !.outcome = [kind |-> "OverflowError"]]
              [] OTHER ->
                    [@ EXCEPT !.pc = "request",
                              !.sleeps = Append(@, f[p].delay_seconds.millis),
                              !.attempt_number = @ + 1]]
    /\ store' = [k \in DOMAIN store \ {Key(p)} |-> store[k]]
    /\ UNCHANGED <<call, cache, clock, scenario, started, netlog, pure>>

\* line 715: _sleep_for_retry(delay_seconds), then the next attempt.
\* time.sleep raises ValueError for NaN and OverflowError for infinity.
Sleep(p) ==
    /\ f[p].pc = "sleep"
    /\ f' = [f EXCEPT ![p] =
            CASE f[p].delay_seconds.kind = "nan" ->
                    [@ EXCEPT !.pc = "raised", !.outcome = [kind |-> "ValueError"]]
              [] f[p].delay_seconds.kind = "inf" ->
                    [@ EXCEPT !.pc = "raised", !.outcome = [kind |-> "OverflowError"]]
              [] OTHER ->
                    [@ EXCEPT !.pc = "request",
                              !.sleeps = Append(@, f[p].delay_seconds.millis),
                              !.attempt_number = @ + 1]]
    /\ UNCHANGED <<call, cache, store, clock, scenario, started, netlog, pure>>

-----------------------------------------------------------------------------
(* parse_head_changed_ranges_from_patch.  A patch is the sequence of lines *)
(* patch.splitlines() yields; a line is its text, and for a line that      *)
(* HUNK_HEADER_PATTERN matches, the integer of its head_start group.       *)

NoLine == 0 - 1
HunkLine(head_start) == [head_start |-> head_start, text |-> <<"@", "@">>]
TextLine(text) == [head_start |-> NoLine, text |-> text]

\* HUNK_HEADER_PATTERN.match(line) is not None
HUNK_HEADER_PATTERN_match(line) == line.head_start # NoLine

\* str.startswith
startswith(text, prefix) ==
    Len(text) >= Len(prefix) /\ SubSeq(text, 1, Len(prefix)) = prefix

ChangedRange(line_start, line_end) == [line_start |-> line_start, line_end |-> line_end]

\* lines 511-515: the locals before the loop
ParserStart ==
    [ranges |-> <<>>, in_hunk |-> FALSE, head_line |-> 0,
     range_start |-> NoLine, range_end |-> NoLine]

\* lines 517-523
flush_open_range(st) ==
    IF st.range_start = NoLine \/ st.range_end = NoLine
    THEN st
    ELSE [st EXCEPT !.ranges = Append(@, ChangedRange(st.range_start, st.range_end)),
                    !.range_start = NoLine,
                    !.range_end = NoLine]

\* a loop body whose hunk header would leave the open range open
ScanLine_header_keeps_range(st, line) ==
    IF HUNK_HEADER_PATTERN_match(line)
    THEN [st EXCEPT !.in_hunk = TRUE, !.head_line = line.head_start]
    ELSE IF ~st.in_hunk
    THEN st
    ELSE IF startswith(line.text, <<"+">>) /\ ~startswith(line.text, <<"+", "+", "+">>)
    THEN [st EXCEPT !.range_start = IF @ = NoLine THEN st.head_line ELSE @,
                    !.range_end = st.head_line,
                    !.head_line = @ + 1]
    ELSE IF startswith(line.text, <<" ">>)
    THEN [flush_open_range(st) EXCEPT !.head_line = @ + 1]
    ELSE IF startswith(line.text, <<"-">>) /\ ~startswith(line.text, <<"-", "-", "-">>)
    THEN flush_open_range(st)
    ELSE IF startswith(line.text, <<"\\">>)
    THEN st
    ELSE flush_open_range(st)

\* a loop body that would count a line it does not recognise as a head line
ScanLine_counts_unrecognised(st, line) ==
    IF HUNK_HEADER_PATTERN_match(line)
    THEN [flush_open_range(st) EXCEPT !.in_hunk = TRUE, !.head_line = line.head_start]
    ELSE IF ~st.in_hunk
    THEN st
    ELSE IF startswith(line.text, <<"+">>) /\ ~startswith(line.text, <<"+", "+", "+">>)
    THEN [st EXCEPT !.range_start = IF @ = NoLine THEN st.head_line ELSE @,
                    !.range_end = st.head_line,
                    !.head_line = @ + 1]
    ELSE IF startswith(line.text, <<" ">>)
    THEN [flush_open_range(st) EXCEPT !.head_line = @ + 1]
    ELSE IF startswith(line.text, <<"-">>) /\ ~startswith(line.text, <<"-", "-", "-">>)
    THEN flush_open_range(st)
    ELSE IF startswith(line.text, <<"\\">>)
    THEN st
    ELSE [flush_open_range(st) EXCEPT !.head_line = @ + 1]

\* lines 526-555: the loop body for one line
ScanLine(st, line) ==
    IF HUNK_HEADER_PATTERN_match(line)
    THEN [flush_open_range(st) EXCEPT !.in_hunk = TRUE, !.head_line = line.head_start]
    ELSE IF ~st.in_hunk
    THEN st
    ELSE IF startswith(line.text, <<"+">>) /\ ~startswith(line.text, <<"+", "+", "+">>)
    THEN [st EXCEPT !.range_start = IF @ = NoLine THEN st.head_line ELSE @,
                    !.range_end = st.head_line,
                    !.head_line = @ + 1]
    ELSE IF startswith(line.text, <<" ">>)
    THEN [flush_open_range(st) EXCEPT !.head_line = @ + 1]
    ELSE IF startswith(line.text, <<"-">>) /\ ~startswith(line.text, <<"-", "-", "-">>)
    THEN flush_open_range(st)
    ELSE IF startswith(line.text, <<"\\">>)
    THEN st
    ELSE flush_open_range(st)

RECURSIVE ScanLines(_, _, _)
ScanLines(st, lines, i) ==
    IF i > Len(lines) THEN st ELSE ScanLines(ScanLine(st, lines[i]), lines, i + 1)

\* lines 509-558
parse_head_changed_ranges_from_patch(patch) ==
    flush_open_range(ScanLines(ParserStart, patch, 1)).ranges

\* parse_head_changed_ranges_from_patch(patch), called on its own
ParsePatch ==
    /\ pure.op = "patch"
    /\ pure' = [op |-> "parse_head_changed_ranges_from_patch", patch |-> pure.patch,
                ranges |-> parse_head_changed_ranges_from_patch(pure.patch)]
    /\ UNCHANGED <<call, cache, store, clock, scenario, f, started, netlog>>

-----------------------------------------------------------------------------
(* fetch_pull_request_snapshot: metadata, the paged file list, the raw     *)
(* diff.  Each resource request is one call of _request_with_retries       *)
(* without a cache, summarised by the status of its last response.  The    *)
(* server holds server.total file rows; row i has filename i.              *)

Digits == <<"0", "1", "2", "3", "4", "5", "6", "7", "8", "9">>
RECURSIVE Decimal(_)
\* f"{page}"
Decimal(n) ==
    IF n < 10 THEN <<Digits[n + 1]>> ELSE Decimal(n \div 10) \o <<Digits[(n % 10) + 1]>>

\* row.get("patch"): a string, or None
NoPatch == [present |-> FALSE, lines |-> <<>>]
Patch(lines) == [present |-> TRUE, lines |-> lines]

ExamplePatch ==
    Patch(<<HunkLine(5), TextLine(<<"-", "o", "l", "d">>),
            TextLine(<<"+", "n", "e", "w", "_", "a">>),
            TextLine(<<"+", "n", "e", "w", "_", "b">>)>>)
DeletionOnlyPatch ==
    Patch(<<HunkLine(8), TextLine(<<"-", "o", "l", "d", "1">>),
            TextLine(<<"-", "o", "l", "d", "2">>)>>)
TwoHunkPatch ==
    Patch(<<HunkLine(10), TextLine(<<" ", "l", "1">>), TextLine(<<"-", "l", "2">>),
            TextLine(<<"+", "l", "2", "a">>), TextLine(<<"+", "l", "2", "b">>),
            TextLine(<<" ", "l", "3">>),
            HunkLine(31), TextLine(<<"-", "o">>), TextLine(<<"+", "n", "1">>),
            TextLine(<<"+", "n", "2">>)>>)
ServerPatches == <<ExamplePatch, DeletionOnlyPatch, TwoHunkPatch, Patch(<<>>)>>

\* the i-th row the server holds for GET .../pulls/42/files
ServerRow(server, i) ==
    [filename |-> i, status |-> "modified", previous_filename |-> None,
     patch |-> IF server.patchless_step > 0 /\ i % server.patchless_step = 0
               THEN NoPatch
               ELSE ServerPatches[(i % Len(ServerPatches)) + 1]]

\* the rows of ?per_page=100&page={page}
ServerPage(server, page) ==
    LET lo == (page - 1) * PER_PAGE + 1
        hi == IF page * PER_PAGE < server.total THEN page * PER_PAGE ELSE server.total
    IN  [i \in 1..(IF hi >= lo THEN hi - lo + 1 ELSE 0) |-> ServerRow(server, lo + i - 1)]

\* an is_binary that would be set for files that do have a patch
PullRequestFile_binary_when_patched(row) ==
    [path |-> row.filename, status |-> row.status, patch |-> row.patch,
     previous_filename |-> row.previous_filename,
     changed_ranges |-> IF row.patch.present
                        THEN parse_head_changed_ranges_from_patch(row.patch.lines)
                        ELSE <<>>,
     is_binary |-> row.patch.present]

\* lines 784-817: one row of the file list
PullRequestFile(row) ==
    [path |-> row.filename, status |-> row.status, patch |-> row.patch,
     previous_filename |-> row.previous_filename,
     changed_ranges |-> IF row.patch.present
                        THEN parse_head_changed_ranges_from_patch(row.patch.lines)
                        ELSE <<>>,
     is_binary |-> ~row.patch.present]

\* a stop test that would also stop after a full page
IsLastPage_full_page_stops(rows) == rows = <<>> \/ Len(rows) <= PER_PAGE

\* lines 780-781 and 820-821: "if not rows: break", "if len(rows) < per_page: break"
IsLastPage(rows) == rows = <<>> \/ Len(rows) < PER_PAGE

\* a warning builder that would put the ellipsis from five files on
MissingPatchWarnings_ellipsis_from_five(files) ==
    LET lacking == SelectSeq(files, LAMBDA file : ~file.patch.present)
        files_without_patch == [i \in 1..Len(lacking) |-> lacking[i].path]
        shown == IF Len(files_without_patch) < MISSING_PATCH_EXAMPLES
                 THEN Len(files_without_patch) ELSE MISSING_PATCH_EXAMPLES
    IN  IF files_without_patch = <<>> THEN <<>>
        ELSE <<[count |-> Len(files_without_patch),
                displayed |-> SubSeq(files_without_patch, 1, shown),
                ellipsis |-> Len(files_without_patch) >= MISSING_PATCH_EXAMPLES]>>

\* lines 873-882: the aggregate warning; the text
\* "{count} file(s) missing patch content (binary or truncated): {displayed}"
\* is kept as its count, the joined paths and whether ", ..." follows
MissingPatchWarnings(files) ==
    LET lacking == SelectSeq(files, LAMBDA file : ~file.patch.present)
        files_without_patch == [i \in 1..Len(lacking) |-> lacking[i].path]
        shown == IF Len(files_without_patch) < MISSING_PATCH_EXAMPLES
                 THEN Len(files_without_patch) ELSE MISSING_PATCH_EXAMPLES
    IN  IF files_without_patch = <<>> THEN <<>>
        ELSE <<[count |-> Len(files_without_patch),
                displayed |-> SubSeq(files_without_patch, 1, shown),
                ellipsis |-> Len(files_without_patch) > MISSING_PATCH_EXAMPLES]>>

\* an order that would fetch the diff before the file list
ResourceAfter_diff_before_files(resource) ==
    CASE resource = "metadata" -> "diff"
      [] resource = "diff" -> "files"
      [] OTHER -> "done"

\* lines 854-871: metadata, then files, then the raw diff
ResourceAfter(resource) ==
    CASE resource = "metadata" -> "files"
      [] resource = "files" -> "diff"
      [] OTHER -> "done"

SnapshotCall(server) ==
    [op |-> "fetch_pull_request_snapshot", pc |-> "running", resource |-> "metadata",
     owner |-> "acme", repo |-> "rocket", server |-> server,
     page |-> 1, files |-> <<>>, metadata |-> [number |-> 0], raw_diff |-> None,
     requests |-> <<>>, outcome |-> NoOutcome]

Requested(c, endpoint, accept_header) ==
    [c EXCEPT !.requests = Append(@, [endpoint |-> endpoint, accept_header |-> accept_header])]

\* the exception of _request_with_retries leaves fetch_pull_request_snapshot
Propagate(c, status_code, endpoint) ==
    [c EXCEPT !.pc = "raised",
              !.outcome = _raise_http_error(
                              Response(status_code, NoBody, None, None, NoRetryAfter),
                              endpoint)]

\* lines 884-890, reached when the last resource has been fetched
ReturnWhenDone(c) ==
    IF c.resource # "done" THEN c
    ELSE [c EXCEPT !.pc = "returned",
                   !.outcome = [kind |-> "PullRequestSnapshot",
                                repository |-> <<c.owner, c.repo>>,
                                metadata |-> c.metadata, files |-> c.files,
                                raw_diff |-> c.raw_diff,
                                warnings |-> MissingPatchWarnings(c.files)]]

Fetching(resource) ==
    /\ call.op = "fetch_pull_request_snapshot"
    /\ call.pc = "running"
    /\ call.resource = resource

\* lines 854-859: fetch_pull_request_metadata
FetchMetadata ==
    /\ Fetching("metadata")
    /\ \E status_code \in scenario.statuses :
        LET endpoint == PullEndpoint(call.owner, call.repo)
            c == Requested(call, endpoint, JSON_ACCEPT)
        IN  call' = IF status_code < 400
                    THEN ReturnWhenDone([c EXCEPT !.metadata = [number |-> 42],
                                                  !.resource = ResourceAfter(@)])
                    ELSE Propagate(c, status_code, endpoint)
    /\ UNCHANGED <<cache, store, clock, scenario, f, started, netlog, pure>>

\* lines 860-865 and 777-822: one turn of the page loop of
\* fetch_pull_request_files
FetchFilesPage ==
    /\ Fetching("files")
    /\ \E status_code \in scenario.statuses :
        LET endpoint == FilesEndpoint(call.owner, call.repo, Decimal(call.page))
            c == Requested(call, endpoint, JSON_ACCEPT)
            rows == ServerPage(call.server, call.page)
            files == call.files \o [i \in 1..Len(rows) |-> PullRequestFile(rows[i])]
        IN  call' = IF status_code >= 400
                    THEN Propagate(c, status_code, endpoint)
                    ELSE IF IsLastPage(rows)
                    THEN ReturnWhenDone([c EXCEPT !.files = files,
                                                  !.resource = ResourceAfter(@)])
                    ELSE [c EXCEPT !.files = files, !.page = @ + 1]
    /\ UNCHANGED <<cache, store, clock, scenario, f, started, netlog, pure>>

\* lines 866-871: fetch_pull_request_diff
FetchDiff ==
    /\ Fetching("diff")
    /\ \E status_code \in scenario.statuses :
        LET endpoint == PullEndpoint(call.owner, call.repo)
            c == Requested(call, endpoint, DIFF_ACCEPT)
        IN  call' = IF status_code < 400
                    THEN ReturnWhenDone([c EXCEPT !.raw_diff = Body("diff", 1),
                                                  !.resource = ResourceAfter(@)])
                    ELSE Propagate(c, status_code, endpoint)
    /\ UNCHANGED <<cache, store, clock, scenario, f, started, netlog, pure>>

-----------------------------------------------------------------------------
(* fetch_file_content_at_ref and resolve_pull_request_file_content.  A     *)
(* path is a sequence of characters; None where a path may be missing is   *)
(* NoPath.  A fetch of file content is one call of _request_with_retries   *)
(* with allow_not_found=True, summarised by its last response.             *)

NoPath == <<None>>
NoWarning == [kind |-> "none"]
-----------------------------------------------------------------------------
(* JSON values as Python reads them: the Python type of the value and the  *)
(* value.  payload.get(key) of a missing key is JNull.  A string that is   *)
(* a label is a TLA+ string; a string that is file content is its sequence *)
(* of code points.                                                         *)
JNull == <<"NoneType", None>>
JStr(v) == <<"str", v>>
JInt(v) == <<"int", v>>
JFloat(v) == <<"float", v>>
JBool(v) == <<"bool", v>>
JDict(v) == <<"dict", v>>
JList(v) == <<"list", v>>
\* a body that is no JSON text: response.json() raises
NotJson == <<"not_json", None>>
KindOf(value) == value[1]
ValueOf(value) == value[2]

\* isinstance(value, str), isinstance(value, bool), isinstance(value, dict),
\* isinstance(value, list); bool is a subclass of int
IsStr(value) == KindOf(value) = "str"
IsBool(value) == KindOf(value) = "bool"
IsIntInstance(value) == KindOf(value) \in {"int", "bool"}
IsDict(value) == KindOf(value) = "dict"
IsList(value) == KindOf(value) = "list"
IsNone(value) == KindOf(value) = "NoneType"

\* raise GitHubApiError(..., status_code=500, endpoint=endpoint); field is
\* the key the message names, None when it names none
MalformedResponse(endpoint, field) ==
    [kind |-> "GitHubApiError", status_code |-> 500, endpoint |-> endpoint,
     field |-> field]
JSONDecodeError == [kind |-> "JSONDecodeError"]
IsRaised(result) == "kind" \in DOMAIN result

\* binascii's table: the 6-bit value of a code point of the base64
\* alphabet, 64 for every other code point
Base64Value(c) ==
    CASE c >= 65 /\ c <= 90 -> c - 65
      [] c >= 97 /\ c <= 122 -> c - 97 + 26
      [] c >= 48 /\ c <= 57 -> c - 48 + 52
      [] c = 43 -> 62
      [] c = 47 -> 63
      [] OTHER -> 64
Base64Pad == 61

RECURSIVE a2b_base64(_, _, _, _, _, _)
\* binascii.a2b_base64 without strict mode, as base64.b64decode(content,
\* validate=False) calls it: characters outside the alphabet are skipped,
\* decoding stops at complete padding, and leftover data characters are an
\* error
a2b_base64(chars, i, quad_pos, leftchar, pads, out) ==
    IF i > Len(chars)
    THEN [ok |-> quad_pos = 0, bytes |-> out]
    ELSE LET c == chars[i]
             v == Base64Value(c)
         IN  IF c = Base64Pad
             THEN IF quad_pos >= 2 /\ quad_pos + pads + 1 >= 4
                  THEN [ok |-> TRUE, bytes |-> out]
                  ELSE a2b_base64(chars, i + 1, quad_pos, leftchar,
                                  IF quad_pos >= 2 THEN pads + 1 ELSE pads, out)
             ELSE IF v = 64
             THEN a2b_base64(chars, i + 1, quad_pos, leftchar, pads, out)
             ELSE CASE quad_pos = 0 ->
                         a2b_base64(chars, i + 1, 1, v, 0, out)
                    [] quad_pos = 1 ->
                         a2b_base64(chars, i + 1, 2, v % 16, 0,
                                    Append(out, leftchar * 4 + (v \div 16)))
                    [] quad_pos = 2 ->
                         a2b_base64(chars, i + 1, 3, v % 4, 0,
                                    Append(out, leftchar * 16 + (v \div 4)))
                    [] OTHER ->
                         a2b_base64(chars, i + 1, 0, 0, 0,
                                    Append(out, leftchar * 64 + v))

b64decode(content) == a2b_base64(content, 1, 0, 0, 0, <<>>)

IsContinuation(bytes, i) == i <= Len(bytes) /\ bytes[i] >= 128 /\ bytes[i] <= 191

RECURSIVE utf8_decode(_, _, _)
\* bytes.decode("utf-8"): the code points, or UnicodeDecodeError
utf8_decode(bytes, i, out) ==
    IF i > Len(bytes) THEN [ok |-> TRUE, text |-> out]
    ELSE LET b == bytes[i]
             second == IF i + 1 <= Len(bytes) THEN bytes[i + 1] ELSE 0
             Tail6(j) == bytes[j] % 64
         IN  CASE b <= 127 -> utf8_decode(bytes, i + 1, Append(out, b))
               [] b >= 194 /\ b <= 223 /\ IsContinuation(bytes, i + 1) ->
                    utf8_decode(bytes, i + 2, Append(out, (b % 32) * 64 + Tail6(i + 1)))
               [] /\ b >= 224 /\ b <= 239
                  /\ IsContinuation(bytes, i + 1) /\ IsContinuation(bytes, i + 2)
                  /\ b = 224 => second >= 160
                  /\ b = 237 => second <= 159 ->
                    utf8_decode(bytes, i + 3,
                                Append(out, (b % 16) * 4096 + Tail6(i + 1) * 64
                                            + Tail6(i + 2)))
               [] /\ b >= 240 /\ b <= 244
                  /\ IsContinuation(bytes, i + 1) /\ IsContinuation(bytes, i + 2)
                  /\ IsContinuation(bytes, i + 3)
                  /\ b = 240 => second >= 144
                  /\ b = 244 => second <= 143 ->
                    utf8_decode(bytes, i + 4,
                                Append(out, (b % 8) * 262144 + Tail6(i + 1) * 4096
                                            + Tail6(i + 2) * 64 + Tail6(i + 3)))
               [] OTHER -> [ok |-> FALSE, text |-> <<>>]

RECURSIVE lstrip_slash(_)
\* path.lstrip("/")
lstrip_slash(path) ==
    IF path # <<>> /\ path[1] = "/" THEN lstrip_slash(Tail(path)) ELSE path

FileContentAtRef(ref, path, exists, sha, size_bytes, text, is_binary, encoding, warning) ==
    [ref |-> ref, path |-> path, exists |-> exists, sha |-> sha,
     size_bytes |-> size_bytes, text |-> text, is_binary |-> is_binary,
     encoding |-> encoding, warning |-> warning]

\* the JSON object of a contents response
Payload(type, sha, size, encoding, content) ==
    JDict([type |-> type, sha |-> sha, size |-> size, encoding |-> encoding,
           content |-> content])
ContentAnswer(status_code, payload) == [status_code |-> status_code, payload |-> payload]

\* lines 931-966: the first field of the payload that is neither null nor
\* of its kind, None when there is none
OffendingContentField(payload) ==
    CASE ~(IsNone(payload.type) \/ IsStr(payload.type)) -> "type"
      [] ~(IsNone(payload.sha) \/ IsStr(payload.sha)) -> "sha"
      [] ~(IsNone(payload.size) \/ (IsIntInstance(payload.size) /\ ~IsBool(payload.size)))
           -> "size"
      [] ~(IsNone(payload.encoding) \/ IsStr(payload.encoding)) -> "encoding"
      [] ~(IsNone(payload.content) \/ IsStr(payload.content)) -> "content"
      [] OTHER -> None

\* lines 968-1058: the record for a payload whose fields have their kinds
ClassifyContent(normalized_path, ref, payload) ==
    LET Binary(kind) ==
            FileContentAtRef(ref, normalized_path, TRUE, payload.sha, payload.size,
                             JNull, TRUE, payload.encoding,
                             [kind |-> kind, path |-> normalized_path, ref |-> ref])
        Text(text) ==
            FileContentAtRef(ref, normalized_path, TRUE, payload.sha, payload.size,
                             JStr(text), FALSE, payload.encoding, NoWarning)
    IN  IF ~IsNone(payload.type) /\ ValueOf(payload.type) # "file"
        THEN Binary("Unsupported GitHub content type")
        ELSE IF IsNone(payload.content)
        THEN Binary("Missing file content payload")
        ELSE IF IsStr(payload.encoding) /\ ValueOf(payload.encoding) = "base64"
        THEN LET decoded_bytes == b64decode(ValueOf(payload.content))
                 text == utf8_decode(decoded_bytes.bytes, 1, <<>>)
             IN  IF ~decoded_bytes.ok THEN Binary("Invalid base64 payload")
                 ELSE IF ~text.ok THEN Binary("Non-UTF-8 content")
                 ELSE Text(text.text)
        ELSE IF IsStr(payload.encoding) /\ ValueOf(payload.encoding) \in {"utf-8", "utf8"}
        THEN Text(ValueOf(payload.content))
        ELSE Binary("Unsupported content encoding")

\* lines 919-1058: the result, or the exception, for a response that
\* _request_with_retries returned (status below 400, or the allowed 404)
DecodeContent(normalized_path, ref, endpoint, answer) ==
    IF answer.status_code = 404
    THEN FileContentAtRef(ref, normalized_path, FALSE, JNull, JNull, JNull,
                          FALSE, JNull, NoWarning)
    ELSE IF answer.payload = NotJson THEN JSONDecodeError
    ELSE IF ~IsDict(answer.payload) THEN MalformedResponse(endpoint, None)
    ELSE IF OffendingContentField(ValueOf(answer.payload)) # None
    THEN MalformedResponse(endpoint, OffendingContentField(ValueOf(answer.payload)))
    ELSE ClassifyContent(normalized_path, ref, ValueOf(answer.payload))

\* a placeholder that would carry an empty text for the absent file
_build_missing_content_with_empty_text(ref, path, warning) ==
    FileContentAtRef(ref, path, FALSE, JNull, JNull, JStr(<<>>), FALSE, JNull, warning)

\* lines 1061-1073
_build_missing_content(ref, path, warning) ==
    FileContentAtRef(ref, path, FALSE, JNull, JNull, JNull, FALSE, JNull, warning)

\* a base side that would be fetched for an added file too
BaseFetchPath_added_fetches_base(file) ==
    CASE file.status = "renamed" ->
           IF file.previous_filename = NoPath THEN file.path ELSE file.previous_filename
      [] OTHER -> file.path

\* lines 1089-1170: the path fetched at metadata.base_sha, NoPath when the
\* base side is not fetched
BaseFetchPath(file) ==
    CASE file.status = "added" -> NoPath
      [] file.status = "renamed" ->
           IF file.previous_filename = NoPath THEN file.path ELSE file.previous_filename
      [] OTHER -> file.path

\* lines 1089-1170: the path fetched at metadata.head_sha, NoPath when the
\* head side is not fetched
HeadFetchPath(file) == IF file.status = "removed" THEN NoPath ELSE file.path

KnownStatuses == {"added", "removed", "renamed", "modified"}

\* a resolver that would take the fallback plan without its warning
SyntheticWarnings_unknown_is_silent(file) ==
    CASE file.status = "renamed" /\ file.previous_filename = NoPath ->
           <<[kind |-> "missing previous_filename; using current path for base fetch",
              path |-> file.path]>>
      [] OTHER -> <<>>

\* a resolver that would warn about every renamed file
SyntheticWarnings_every_rename(file) ==
    CASE file.status = "renamed" ->
           <<[kind |-> "missing previous_filename; using current path for base fetch",
              path |-> file.path]>>
      [] file.status \notin KnownStatuses ->
           <<[kind |-> "Unknown file status", path |-> file.path,
              status |-> file.status]>>
      [] OTHER -> <<>>

\* lines 1117-1121 and 1153-1156: the warnings the resolver adds before it
\* fetches
SyntheticWarnings(file) ==
    CASE file.status = "renamed" /\ file.previous_filename = NoPath ->
           <<[kind |-> "missing previous_filename; using current path for base fetch",
              path |-> file.path]>>
      [] file.status \notin KnownStatuses ->
           <<[kind |-> "Unknown file status", path |-> file.path,
              status |-> file.status]>>
      [] OTHER -> <<>>

ResolveCall(file, metadata) ==
    [op |-> "resolve_pull_request_file_content", pc |-> "base",
     owner |-> "acme", repo |-> "rocket", file |-> file, metadata |-> metadata,
     warnings |-> <<>>,
     base_content |-> _build_missing_content(<<>>, <<>>, NoWarning),
     head_content |-> _build_missing_content(<<>>, <<>>, NoWarning),
     requests |-> <<>>, outcome |-> NoOutcome]

\* a resolver that would report the head warning before the base warning
ResolverReturn_head_first(c) ==
    LET OwnWarning(content) ==
            IF content.warning # NoWarning THEN <<content.warning>> ELSE <<>>
        warnings == c.warnings \o OwnWarning(c.head_content) \o OwnWarning(c.base_content)
    IN  [c EXCEPT !.pc = "returned", !.warnings = warnings,
                  !.outcome = [kind |-> "PullRequestFileContent",
                               path |-> c.file.path, status |-> c.file.status,
                               base |-> c.base_content, head |-> c.head_content,
                               warnings |-> warnings]]

\* lines 1172-1183
ResolverReturn(c) ==
    LET OwnWarning(content) ==
            IF content.warning # NoWarning THEN <<content.warning>> ELSE <<>>
        warnings == c.warnings \o OwnWarning(c.base_content) \o OwnWarning(c.head_content)
    IN  [c EXCEPT !.pc = "returned", !.warnings = warnings,
                  !.outcome = [kind |-> "PullRequestFileContent",
                               path |-> c.file.path, status |-> c.file.status,
                               base |-> c.base_content, head |-> c.head_content,
                               warnings |-> warnings]]

GitHubInputError == [kind |-> "GitHubInputError"]

\* lines 902-1058 with the repository name already parsed: the requests
\* made and the record returned or the exception raised
fetch_file_content_at_ref(owner, repo, path, ref, answer) ==
    LET normalized_path == lstrip_slash(path)
        endpoint == ContentsEndpoint(owner, repo, normalized_path, ref)
    IN  IF normalized_path = <<>> \/ ref = <<>>
        THEN [requests |-> <<>>, result |-> GitHubInputError]
        ELSE [requests |-> <<[endpoint |-> endpoint, path |-> normalized_path,
                              ref |-> ref]>>,
              result |-> IF answer.status_code >= 400 /\ answer.status_code # 404
                         THEN _raise_http_error(
                                  Response(answer.status_code, NoBody, None, None,
                                           NoRetryAfter), endpoint)
                         ELSE DecodeContent(normalized_path, ref, endpoint, answer)]

\* a call of fetch_file_content_at_ref by the resolver, and what comes of
\* its exceptions; side is "base" or "head"
FetchContent(c, side, path, ref, answer) ==
    LET fetched == fetch_file_content_at_ref(c.owner, c.repo, path, ref, answer)
        content == fetched.result
        asked == [c EXCEPT !.requests =
                     @ \o [i \in 1..Len(fetched.requests) |->
                             [endpoint |-> fetched.requests[i].endpoint, side |-> side,
                              path |-> fetched.requests[i].path,
                              ref |-> fetched.requests[i].ref]]]
    IN  IF IsRaised(content)
        THEN [asked EXCEPT !.pc = "raised", !.outcome = content]
        ELSE IF side = "base"
        THEN [asked EXCEPT !.base_content = content, !.pc = "head"]
        ELSE ResolverReturn([asked EXCEPT !.head_content = content])

Resolving(pc) == call.op = "resolve_pull_request_file_content" /\ call.pc = pc

\* the first half of each branch of lines 1089-1170: base_content, for the
\* resolver activation c and the answer of the server if it is asked
ResolveBaseStep(c, answer) ==
    LET file == c.file
        path == BaseFetchPath(file)
        warned == [c EXCEPT !.warnings = SyntheticWarnings(file)]
    IN  IF path = NoPath
        THEN [warned EXCEPT !.pc = "head",
                            !.base_content = _build_missing_content(
                                c.metadata.base_sha, file.path,
                                [kind |-> "is added and absent at base ref",
                                 path |-> file.path])]
        ELSE FetchContent(warned, "base", path, c.metadata.base_sha, answer)

\* the second half of each branch of lines 1089-1170: head_content, and
\* lines 1172-1183
ResolveHeadStep(c, answer) ==
    LET file == c.file
        path == HeadFetchPath(file)
    IN  IF path = NoPath
        THEN ResolverReturn(
                 [c EXCEPT !.head_content = _build_missing_content(
                               c.metadata.head_sha, file.path,
                               [kind |-> "is removed and absent at head ref",
                                path |-> file.path])])
        ELSE FetchContent(c, "head", path, c.metadata.head_sha, answer)

ResolveBase ==
    /\ Resolving("base")
    /\ \E answer \in scenario.answers : call' = ResolveBaseStep(call, answer)
    /\ UNCHANGED <<cache, store, clock, scenario, f, started, netlog, pure>>

ResolveHead ==
    /\ Resolving("head")
    /\ \E answer \in scenario.answers : call' = ResolveHeadStep(call, answer)
    /\ UNCHANGED <<cache, store, clock, scenario, f, started, netlog, pure>>

\* fetch_pull_request_file_contents, lines 1195-1209
BatchCall(files, metadata) ==
    [op |-> "fetch_pull_request_file_contents", pc |-> "running",
     files |-> files, metadata |-> metadata, index |-> 1,
     resolved_files |-> <<>>, aggregated_warnings |-> <<>>,
     current |-> ResolveCall(files[1], metadata), outcome |-> NoOutcome]

\* lines 1198-1209: what the loop does with the resolver activation after
\* one of its steps
BatchAfter(c, resolver) ==
    CASE resolver.pc = "raised" ->
           [c EXCEPT !.pc = "raised", !.current = resolver, !.outcome = resolver.outcome]
      [] resolver.pc = "returned" ->
           LET resolved_files == Append(c.resolved_files, resolver.outcome)
               aggregated_warnings == c.aggregated_warnings \o resolver.outcome.warnings
               collected == [c EXCEPT !.current = resolver,
                                      !.resolved_files = resolved_files,
                                      !.aggregated_warnings = aggregated_warnings]
           IN  IF c.index = Len(c.files)
               THEN [collected EXCEPT !.pc = "returned",
                                      !.outcome = [kind |-> "resolved",
                                                   resolved_files |-> resolved_files,
                                                   aggregated_warnings |-> aggregated_warnings]]
               ELSE [collected EXCEPT !.index = @ + 1,
                                      !.current = ResolveCall(c.files[c.index + 1],
                                                              c.metadata)]
      [] OTHER -> [c EXCEPT !.current = resolver]

\* one step of the resolver inside the loop of lines 1198-1207
ResolveInBatch ==
    /\ call.op = "fetch_pull_request_file_contents"
    /\ call.pc = "running"
    /\ \E answer \in scenario.answers :
          call' = BatchAfter(call, IF call.current.pc = "base"
                                   THEN ResolveBaseStep(call.current, answer)
                                   ELSE ResolveHeadStep(call.current, answer))
    /\ UNCHANGED <<cache, store, clock, scenario, f, started, netlog, pure>>

-----------------------------------------------------------------------------
(* The public fetchers from their call on: the validation of the           *)
(* arguments, then the request and the decoding of its answer.             *)

IsSpace(c) == c \in {" ", "\t", "\n", "\r"}
RECURSIVE lstrip(_)
lstrip(text) == IF text # <<>> /\ IsSpace(text[1]) THEN lstrip(Tail(text)) ELSE text
RECURSIVE rstrip(_)
rstrip(text) ==
    IF text # <<>> /\ IsSpace(text[Len(text)])
    THEN rstrip(SubSeq(text, 1, Len(text) - 1)) ELSE text
\* str.strip()
strip(text) == rstrip(lstrip(text))

\* str.partition(separator) for a separator of one character
partition(text, separator) ==
    LET found == {i \in 1..Len(text) : text[i] = separator}
        first == CHOOSE i \in found : \A j \in found : i <= j
    IN  IF found = {} THEN <<text, <<>>, <<>>>>
        ELSE <<SubSeq(text, 1, first - 1), <<separator>>,
               SubSeq(text, first + 1, Len(text))>>

\* a validation that would let a repository part with a slash through
parse_repo_full_name_allows_nested(repo_full_name) ==
    LET parts == partition(strip(repo_full_name), "/")
    IN  IF parts[2] = <<>> \/ parts[1] = <<>> \/ parts[3] = <<>>
        THEN [ok |-> FALSE, owner |-> <<>>, repo |-> <<>>]
        ELSE [ok |-> TRUE, owner |-> parts[1], repo |-> parts[3]]

\* lines 1212-1220; ok FALSE stands for raise GitHubInputError
parse_repo_full_name(repo_full_name) ==
    LET parts == partition(strip(repo_full_name), "/")
    IN  IF \/ parts[2] = <<>> \/ parts[1] = <<>> \/ parts[3] = <<>>
           \/ \E i \in 1..Len(parts[3]) : parts[3][i] = "/"
        THEN [ok |-> FALSE, owner |-> <<>>, repo |-> <<>>]
        ELSE [ok |-> TRUE, owner |-> parts[1], repo |-> parts[3]]

\* lines 1223-1227; TRUE stands for the number returned, FALSE for raise
\* GitHubInputError
validate_pr_number(pr_number) == ~(pr_number <= 0)

PullRequestFetchers ==
    {"fetch_pull_request_metadata", "fetch_pull_request_files",
     "fetch_pull_request_diff", "fetch_pull_request_snapshot"}

\* a call of one public fetcher; path and ref matter to
\* fetch_file_content_at_ref only, pr_number to the others
FetcherCall(op, repo_full_name, pr_number, path, ref) ==
    [op |-> op, pc |-> "called", repo_full_name |-> repo_full_name,
     pr_number |-> pr_number, path |-> path, ref |-> ref,
     owner |-> <<>>, repo |-> <<>>, requests |-> <<>>,
     answer |-> ContentAnswer(0, JNull), outcome |-> NoOutcome]

\* the first statements of each fetcher: lines 729-730, 770-771, 835-836,
\* 902-907; fetch_pull_request_snapshot starts with
\* fetch_pull_request_metadata (line 854)
ValidateArguments ==
    /\ call.op \in PullRequestFetchers \cup {"fetch_file_content_at_ref"}
    /\ call.pc = "called"
    /\ LET parsed == parse_repo_full_name(call.repo_full_name)
           accepted ==
               /\ parsed.ok
               /\ IF call.op = "fetch_file_content_at_ref"
                  THEN lstrip_slash(call.path) # <<>> /\ call.ref # <<>>
                  ELSE validate_pr_number(call.pr_number)
       IN  call' = IF ~accepted
                   THEN [call EXCEPT !.pc = "raised", !.outcome = GitHubInputError]
                   ELSE IF call.op = "fetch_pull_request_snapshot"
                   THEN [SnapshotCall(scenario.server) EXCEPT !.owner = parsed.owner,
                                                              !.repo = parsed.repo]
                   ELSE [call EXCEPT !.pc = "requesting", !.owner = parsed.owner,
                                     !.repo = parsed.repo]
    /\ UNCHANGED <<cache, store, clock, scenario, f, started, netlog, pure>>

\* lines 909-1058 of fetch_file_content_at_ref
FetchFileContent ==
    /\ call.op = "fetch_file_content_at_ref"
    /\ call.pc = "requesting"
    /\ \E answer \in scenario.answers :
        LET fetched == fetch_file_content_at_ref(call.owner, call.repo, call.path,
                                                 call.ref, answer)
        IN  call' = [call EXCEPT !.pc = IF IsRaised(fetched.result)
                                        THEN "raised" ELSE "returned",
                                 !.requests = fetched.requests,
                                 !.answer = answer,
                                 !.outcome = fetched.result]
    /\ UNCHANGED <<cache, store, clock, scenario, f, started, netlog, pure>>

\* isinstance tests of _require_str, _require_bool, _require_object
_require_str(value) == IsStr(value)
_require_bool(value) == IsBool(value)
_require_object(value) == IsDict(value)
\* a test that would take a boolean for an integer
_require_int_accepts_bool(value) == IsIntInstance(value)
\* "not isinstance(value, int) or isinstance(value, bool)" fails
_require_int(value) == IsIntInstance(value) /\ ~IsBool(value)
\* "value is not None and not isinstance(value, str)" fails
OptionalStr(value) == IsNone(value) \/ IsStr(value)

Check(value, kind, key) == [value |-> value, kind |-> kind, key |-> key]
Passes(check) ==
    CASE check.kind = "str" -> _require_str(check.value)
      [] check.kind = "int" -> _require_int(check.value)
      [] check.kind = "bool" -> _require_bool(check.value)
      [] check.kind = "object" -> _require_object(check.value)
      [] OTHER -> OptionalStr(check.value)
\* the key of the first check, in the order the code makes them, that
\* fails; None when all pass
FirstFailure(checks) ==
    LET failed == {i \in 1..Len(checks) : ~Passes(checks[i])}
    IN  IF failed = {} THEN None
        ELSE checks[CHOOSE i \in failed : \A j \in failed : i <= j].key

\* lines 732-759: the record, or the exception, for the JSON value of a
\* pull request
DecodeMetadata(payload, endpoint) ==
    IF ~IsDict(payload) THEN MalformedResponse(endpoint, None)
    ELSE LET p == ValueOf(payload)
             envelope == FirstFailure(<<Check(p.user, "object", "user"),
                                        Check(p.base, "object", "base"),
                                        Check(p.head, "object", "head"),
                                        Check(p.body, "optional_str", "body")>>)
             user == ValueOf(p.user)
             base == ValueOf(p.base)
             head == ValueOf(p.head)
             fields == FirstFailure(<<Check(p.number, "int", "number"),
                                      Check(p.title, "str", "title"),
                                      Check(p.state, "str", "state"),
                                      Check(p.draft, "bool", "draft"),
                                      Check(user.login, "str", "login"),
                                      Check(p.html_url, "str", "html_url"),
                                      Check(base.ref, "str", "ref"),
                                      Check(base.sha, "str", "sha"),
                                      Check(head.ref, "str", "ref"),
                                      Check(head.sha, "str", "sha")>>)
         IN  IF envelope # None THEN MalformedResponse(endpoint, envelope)
             ELSE IF fields # None THEN MalformedResponse(endpoint, fields)
             ELSE [number |-> ValueOf(p.number), title |-> ValueOf(p.title),
                   body |-> IF IsNone(p.body) THEN "" ELSE ValueOf(p.body),
                   state |-> ValueOf(p.state), draft |-> ValueOf(p.draft),
                   author_login |-> ValueOf(user.login),
                   html_url |-> ValueOf(p.html_url),
                   base_ref |-> ValueOf(base.ref), base_sha |-> ValueOf(base.sha),
                   head_ref |-> ValueOf(head.ref), head_sha |-> ValueOf(head.sha)]

\* lines 784-800 and 806-808: the first check a row fails
RowFailure(row) ==
    FirstFailure(<<Check(row.filename, "str", "filename"),
                   Check(row.status, "str", "status"),
                   Check(row.patch, "optional_str", "patch"),
                   Check(row.previous_filename, "optional_str", "previous_filename"),
                   Check(row.additions, "int", "additions"),
                   Check(row.deletions, "int", "deletions"),
                   Check(row.changes, "int", "changes")>>)

\* lines 802-818 for a row that passed its checks; a patch is held as its
\* sequence of lines
DecodedFile(row) ==
    [additions |-> ValueOf(row.additions), deletions |-> ValueOf(row.deletions),
     changes |-> ValueOf(row.changes)]
    @@ PullRequestFile([filename |-> ValueOf(row.filename),
                        status |-> ValueOf(row.status),
                        previous_filename |-> IF IsNone(row.previous_filename)
                                              THEN None
                                              ELSE ValueOf(row.previous_filename),
                        patch |-> IF IsNone(row.patch) THEN NoPatch
                                  ELSE Patch(ValueOf(row.patch))])

\* lines 473-489 and 783-824 for one page: the files, or the exception
DecodeFiles(payload, endpoint) ==
    IF ~IsList(payload) THEN MalformedResponse(endpoint, None)
    ELSE LET items == ValueOf(payload)
             not_objects == {i \in 1..Len(items) : ~IsDict(items[i])}
             failed == {i \in 1..Len(items) : RowFailure(ValueOf(items[i])) # None}
         IN  IF not_objects # {} THEN MalformedResponse(endpoint, None)
             ELSE IF failed # {}
             THEN MalformedResponse(
                      endpoint,
                      RowFailure(ValueOf(items[CHOOSE i \in failed :
                                                 \A j \in failed : i <= j])))
             ELSE [files |-> [i \in 1..Len(items) |-> DecodedFile(ValueOf(items[i]))]]

\* what a fetcher that makes one request does with its answer
AnswerTo(c, endpoint, accept_header, status_code, decoded) ==
    LET asked == Requested(c, endpoint, accept_header)
    IN  IF status_code >= 400 THEN Propagate(asked, status_code, endpoint)
        ELSE [asked EXCEPT !.pc = IF IsRaised(decoded) THEN "raised" ELSE "returned",
                           !.outcome = decoded]

\* lines 732-759 of fetch_pull_request_metadata
FetchPullRequestMetadata ==
    /\ call.op = "fetch_pull_request_metadata"
    /\ call.pc = "requesting"
    /\ \E status_code \in scenario.statuses, payload \in scenario.metadata_payloads :
        LET endpoint == PullEndpoint(call.owner, call.repo)
        IN  call' = AnswerTo([call EXCEPT !.answer = ContentAnswer(status_code, payload)],
                             endpoint, JSON_ACCEPT, status_code,
                             DecodeMetadata(payload, endpoint))
    /\ UNCHANGED <<cache, store, clock, scenario, f, started, netlog, pure>>

\* lines 772-824 of fetch_pull_request_files when the first page is short
FetchPullRequestFiles ==
    /\ call.op = "fetch_pull_request_files"
    /\ call.pc = "requesting"
    /\ \E status_code \in scenario.statuses, payload \in scenario.files_payloads :
        LET endpoint == FilesEndpoint(call.owner, call.repo, Decimal(1))
        IN  call' = AnswerTo([call EXCEPT !.answer = ContentAnswer(status_code, payload)],
                             endpoint, JSON_ACCEPT, status_code,
                             DecodeFiles(payload, endpoint))
    /\ UNCHANGED <<cache, store, clock, scenario, f, started, netlog, pure>>

\* lines 837-843 of fetch_pull_request_diff
FetchPullRequestDiff ==
    /\ call.op = "fetch_pull_request_diff"
    /\ call.pc = "requesting"
    /\ \E status_code \in scenario.statuses :
        LET endpoint == PullEndpoint(call.owner, call.repo)
        IN  call' = AnswerTo(call, endpoint, DIFF_ACCEPT, status_code,
                             [text |-> Body("diff", 1)])
    /\ UNCHANGED <<cache, store, clock, scenario, f, started, netlog, pure>>

\* cache_backend.policy_for_endpoint(endpoint), called on its own
PolicyFor ==
    /\ pure.op = "input"
    /\ pure' = [op |-> "policy_for_endpoint", endpoint |-> pure.endpoint,
                policy |-> policy_for_endpoint(cache, pure.endpoint)]
    /\ UNCHANGED <<call, cache, store, clock, scenario, f, started, netlog>>

\* time passes
Tick ==
    /\ clock < MaxClock
    /\ clock' = clock + 1
    /\ UNCHANGED <<call, cache, store, scenario, f, started, netlog, pure>>

\* GitHubResponseCache.delete_expired(now=time.time())
DeleteExpired ==
    /\ store' = CacheDeleteExpired(store, clock)
    /\ UNCHANGED <<call, cache, clock, scenario, f, started, netlog, pure>>

-----------------------------------------------------------------------------
(* Scenarios and specifications *)

Sha40 == Chars("a", ShaMaxLen)
BranchRef == <<"m", "a", "i", "n">>

EpPull == PullEndpoint("acme", "rocket")
EpContentAtCommit == ContentsEndpoint("acme", "rocket", "a.py", Sha40)

Shape(endpoint, accept_header, allow_not_found) ==
    [endpoint |-> endpoint, accept_header |-> accept_header,
     allow_not_found |-> allow_not_found]

RetryAfterValues ==
    {NoRetryAfter, RetryAfter("decimal", 3000), RetryAfter("decimal", 0 - 1000),
     RetryAfter("text", 0), RetryAfter("nan", 0), RetryAfter("inf", 0)}

\* GitHubResponseCache(db_path, mutable_ttl_seconds=..., ...)
CacheObject(mutable, branch, immutable) ==
    [mutable_ttl_seconds |-> mutable, branch_content_ttl_seconds |-> branch,
     immutable_content_ttl_seconds |-> immutable]

DefaultCache == CacheObject(1, 2, 2)

InitWith(sc, c) ==
    /\ cache = c
    /\ store = [k \in {} |-> Absent]
    /\ clock = 0
    /\ scenario = sc
    /\ f = [p \in Procs |-> IdleFetch]
    /\ started = 0
    /\ netlog = [k \in {} |-> EmptyLog]
    /\ pure = [op |-> "none"]
    /\ call = NoCall

FetchNext ==
    \/ \E p \in Procs : Start(p)
    \/ \E p \in Procs : Request(p)
    \/ \E p \in Procs : Handle(p)
    \/ \E p \in Procs : Sleep(p)
    \/ Tick
    \/ DeleteExpired

\* _request_with_retries with free arguments, one caller, a working store
GeneralScenario ==
    [procs |-> {1},
     fetches |-> MaxFetches,
     shapes |-> {Shape(e, None, a) : e \in {EpPull, EpContentAtCommit}, a \in BOOLEAN},
     attempts |-> {1, 2},
     use_cache |-> {TRUE},
     faults |-> FALSE,
     statuses |-> {200, 304, 403, 404, 502},
     versions |-> {1, 2},
     validators |-> {<<"e1", None>>, <<None, None>>},
     retry_after |-> {NoRetryAfter}]

Init == InitWith(GeneralScenario, DefaultCache)
Spec == Init /\ [][FetchNext]_vars

\* the requests the public fetchers make: PR metadata (JSON), the raw diff of
\* the same pull request, file content at a commit (allow_not_found=True)
ApiScenario ==
    [procs |-> {1},
     fetches |-> MaxFetches + 1,
     shapes |-> {Shape(EpPull, JSON_ACCEPT, FALSE), Shape(EpPull, DIFF_ACCEPT, FALSE),
                 Shape(EpContentAtCommit, None, TRUE)},
     attempts |-> {2},
     use_cache |-> {TRUE},
     faults |-> FALSE,
     statuses |-> {200, 304, 404, 502},
     versions |-> {1, 2},
     validators |-> {<<None, None>>},
     retry_after |-> {NoRetryAfter}]

InitApi == InitWith(ApiScenario, DefaultCache)
SpecApi == InitApi /\ [][FetchNext]_vars

\* the retry loop with and without a cache backend, every Retry-After form
RetryScenario ==
    [procs |-> {1},
     fetches |-> MaxFetches,
     shapes |-> {Shape(EpPull, JSON_ACCEPT, a) : a \in BOOLEAN},
     attempts |-> 1..GITHUB_MAX_RETRIES,
     use_cache |-> BOOLEAN,
     faults |-> FALSE,
     statuses |-> {200, 403, 404, 429, 502},
     versions |-> {1},
     validators |-> {<<None, None>>},
     retry_after |-> RetryAfterValues]

InitRetry == InitWith(RetryScenario, DefaultCache)
SpecRetry == InitRetry /\ [][FetchNext]_vars

\* a store whose every operation may raise sqlite3.Error
FaultScenario ==
    [procs |-> {1},
     fetches |-> MaxFetches,
     shapes |-> {Shape(EpPull, JSON_ACCEPT, a) : a \in BOOLEAN},
     attempts |-> {1, 2},
     use_cache |-> {TRUE},
     faults |-> TRUE,
     statuses |-> {200, 304, 403, 404, 502},
     versions |-> {1, 2},
     validators |-> {<<"e1", None>>, <<None, None>>},
     retry_after |-> {NoRetryAfter}]

InitFaults == InitWith(FaultScenario, DefaultCache)
SpecFaults == InitFaults /\ [][FetchNext]_vars

\* two callers fetching the same pull request metadata through one store
\* whose operations may raise sqlite3.Error (a locked database)
ConcurrentScenario ==
    [procs |-> Procs,
     fetches |-> MaxFetches,
     shapes |-> {Shape(EpPull, JSON_ACCEPT, FALSE)},
     attempts |-> {1},
     use_cache |-> {TRUE},
     faults |-> TRUE,
     statuses |-> {200, 304, 502},
     versions |-> {1, 2},
     validators |-> {<<"e1", "m1">>, <<"e2", None>>},
     retry_after |-> {NoRetryAfter}]

\* the database file outlives the process: it is empty, or it holds the row
\* an earlier run stored for the same request at time 0
StoredByEarlierRun ==
    LET policy == policy_for_endpoint(DefaultCache, EpPull)
    IN  CacheUpsert([k \in {} |-> Absent], _cache_key(EpPull, JSON_ACCEPT),
                    EpPull, JSON_ACCEPT,
                    Response(200, Body("json", 0), "e0", "m0", NoRetryAfter),
                    0, _expires_at_for_policy(0, policy), policy.immutable)

InitConcurrent ==
    /\ cache = DefaultCache
    /\ store \in {[k \in {} |-> Absent], StoredByEarlierRun}
    /\ clock = 0
    /\ scenario = ConcurrentScenario
    /\ f = [p \in Procs |-> IdleFetch]
    /\ started = 0
    /\ netlog = [k \in {} |-> EmptyLog]
    /\ pure = [op |-> "none"]
    /\ call = NoCall

\* max_attempts=1: no attempt is followed by a wait
ConcurrentNext ==
    \/ \E p \in Procs : Start(p)
    \/ \E p \in Procs : Request(p)
    \/ \E p \in Procs : Handle(p)
    \/ Tick
    \/ DeleteExpired

SpecConcurrent == InitConcurrent /\ [][ConcurrentNext]_vars

\* responses with an ETag, with an empty ETag, with a Last-Modified only and
\* with no validator, fetched with and without allow_not_found, with a retry
ValidatorScenario ==
    [procs |-> {1},
     fetches |-> MaxFetches,
     shapes |-> {Shape(EpPull, JSON_ACCEPT, a) : a \in BOOLEAN},
     attempts |-> {2},
     use_cache |-> {TRUE},
     faults |-> TRUE,
     statuses |-> {200, 304, 404, 502},
     versions |-> {1},
     validators |-> {<<"e1", "m1">>, <<"", "m2">>, <<None, "m1">>, <<None, None>>},
     retry_after |-> {NoRetryAfter}]

InitValidators == InitWith(ValidatorScenario, DefaultCache)
SpecValidators == InitValidators /\ [][FetchNext]_vars

\* fetch_file_content_at_ref (allow_not_found=True) of one file at a commit id
\* and at a branch, next to a metadata fetch (allow_not_found=False)
EpContentAtBranch == ContentsEndpoint("acme", "rocket", "a.py", BranchRef)
ContentScenario ==
    [procs |-> {1},
     fetches |-> MaxFetches,
     shapes |-> {Shape(EpContentAtCommit, None, TRUE), Shape(EpContentAtBranch, None, TRUE),
                 Shape(EpPull, JSON_ACCEPT, FALSE)},
     attempts |-> {GITHUB_MAX_RETRIES},
     use_cache |-> {TRUE},
     faults |-> FALSE,
     statuses |-> {200, 404, 502},
     versions |-> {1},
     validators |-> {<<"e1", None>>},
     retry_after |-> {NoRetryAfter}]

InitContent == InitWith(ContentScenario, DefaultCache)
SpecContent == InitContent /\ [][FetchNext]_vars

\* policy_for_endpoint over the endpoints the fetchers build and over refs of
\* every length class, for several TTL configurations
Sha7 == Chars("a", ShaMinLen)
PolicyRefs ==
    {Sha40, Sha7, Chars("a", ShaMinLen - 1), Chars("a", ShaMaxLen + 1),
     Chars("b", ShaMaxLen - 1), Chars("A", ShaMaxLen), Chars("g", ShaMaxLen),
     [i \in 1..ShaMaxLen |-> IF i = ShaMaxLen THEN "z" ELSE "0"],
     BranchRef, <<"d", "e", "a", "d", "b", "e", "e", "f">>, <<>>}
PolicyRepos == {"rocket", "contents"}
PolicyEndpoints ==
    {ContentsEndpoint("acme", r, "a.py", ref) : r \in PolicyRepos, ref \in PolicyRefs}
    \cup {[path |-> <<"repos", "acme", r, "contents", "a.py">>, query |-> <<>>] :
              r \in PolicyRepos}
    \cup {PullEndpoint("acme", r) : r \in PolicyRepos}
    \cup {FilesEndpoint("acme", r, page) : r \in PolicyRepos, page \in {<<"1">>, <<"2">>}}
    \cup {[path |-> PullEndpoint("acme", r).path, query |-> << <<"ref", Sha40>> >>] :
              r \in PolicyRepos}
    \cup {UserEndpoint}
PolicyCaches == {CacheObject(1, 2, 2), CacheObject(60, 30, 86400),
                 CacheObject(5, 5, 5), CacheObject(0, 1, 2)}

InitPolicy ==
    /\ cache \in PolicyCaches
    /\ store = [k \in {} |-> Absent]
    /\ clock = 0
    /\ scenario = [GeneralScenario EXCEPT !.fetches = 0]
    /\ f = [p \in Procs |-> IdleFetch]
    /\ started = 0
    /\ netlog = [k \in {} |-> EmptyLog]
    /\ pure \in {[op |-> "input", endpoint |-> e] : e \in PolicyEndpoints}
    /\ call = NoCall
SpecPolicy == InitPolicy /\ [][PolicyFor]_vars

\* the extractor over every patch of at most MaxPatchLines lines drawn from:
\* two hunk headers, an added line, an added line whose content starts with
\* "++", a context line, a removed line, a removed line whose content starts
\* with "--", the no-newline marker, an empty line and a line that starts
\* with none of "+", "-", space and backslash
PatchLines ==
    {HunkLine(1), HunkLine(3),
     TextLine(<<"+", "a">>), TextLine(<<"+", "+", "+", "i">>),
     TextLine(<<" ", "a">>),
     TextLine(<<"-", "a">>), TextLine(<<"-", "-", "-", "i">>),
     TextLine(<<"\\", " ">>), TextLine(<<>>), TextLine(<<"d">>)}
Patches == UNION {[1..n -> PatchLines] : n \in 0..MaxPatchLines}

InitPatch ==
    /\ cache = DefaultCache
    /\ store = [k \in {} |-> Absent]
    /\ clock = 0
    /\ scenario = [GeneralScenario EXCEPT !.fetches = 0]
    /\ f = [p \in Procs |-> IdleFetch]
    /\ started = 0
    /\ netlog = [k \in {} |-> EmptyLog]
    /\ pure \in {[op |-> "patch", patch |-> p] : p \in Patches}
    /\ call = NoCall
SpecPatch == InitPatch /\ [][ParsePatch]_vars

\* fetch_pull_request_snapshot against servers that hold up to MaxFullPages
\* full pages and a last page, with every, every second, every fiftieth or
\* no file lacking its patch
LastPageSizes == {1, 2, 10, 12, PER_PAGE - 1, PER_PAGE}
Servers ==
    {[total |-> t, patchless_step |-> step] :
        t \in {0} \cup {PER_PAGE * n + k : n \in 0..MaxFullPages, k \in LastPageSizes},
        step \in {0, 1, 2, 50}}
SnapshotScenario == [GeneralScenario EXCEPT !.fetches = 0, !.statuses = {200, 404, 429}]

InitSnapshot ==
    /\ cache = DefaultCache
    /\ store = [k \in {} |-> Absent]
    /\ clock = 0
    /\ scenario = SnapshotScenario
    /\ f = [p \in Procs |-> IdleFetch]
    /\ started = 0
    /\ netlog = [k \in {} |-> EmptyLog]
    /\ pure = [op |-> "none"]
    /\ call \in {SnapshotCall(server) : server \in Servers}
SnapshotNext == FetchMetadata \/ FetchFilesPage \/ FetchDiff
SpecSnapshot == InitSnapshot /\ [][SnapshotNext]_vars

\* resolve_pull_request_file_content for one file of each status, with and
\* without a recorded previous path, against every kind of contents answer
BaseSha == Chars("b", ShaMaxLen)
HeadSha == Chars("c", ShaMaxLen)
ResolvePaths == {<<"a", ".", "p", "y">>, <<"d", "/", "b", ".", "p", "y">>}
PreviousPaths == {NoPath, <<"o", "l", "d", ".", "p", "y">>}
ResolveStatuses == KnownStatuses \cup {"copied", "unchanged", "Added", ""}
ResolveFiles ==
    {[path |-> path, status |-> status, previous_filename |-> previous] :
        path \in ResolvePaths, status \in ResolveStatuses, previous \in PreviousPaths}
\* file content as GitHub sends it: "YWJj\nZA==\n" is "abcd", "w6k=" is one
\* two-byte character, "/w==" is the byte 255, "wyg=" is a lead byte
\* without its continuation, "YQ" lacks its padding, "!!!!" has no
\* character of the alphabet, "YQ==Yg==" is two padded texts in a row
B64_abcd == <<89, 87, 74, 106, 10, 90, 65, 61, 61, 10>>
B64_e_acute == <<119, 54, 107, 61>>
B64_byte_255 == <<47, 119, 61, 61>>
B64_broken_character == <<119, 121, 103, 61>>
B64_unpadded == <<89, 81>>
B64_no_alphabet == <<33, 33, 33, 33>>
B64_two_texts == <<89, 81, 61, 61, 89, 103, 61, 61>>
ContentTexts ==
    {B64_abcd, B64_e_acute, B64_byte_255, B64_broken_character, B64_unpadded,
     B64_no_alphabet, B64_two_texts, <<>>}
FilePayload(encoding, content) ==
    Payload(JStr("file"), JStr("blob"), JInt(12), encoding, content)
WellFormedPayloads ==
    {FilePayload(JStr("base64"), JStr(text)) : text \in ContentTexts}
    \cup {FilePayload(JStr(encoding), JStr(B64_abcd)) : encoding \in {"utf-8", "utf8", "none"}}
    \cup {FilePayload(JNull, JStr(B64_abcd)), FilePayload(JStr("base64"), JNull),
          Payload(JStr("dir"), JStr("tree"), JInt(0), JNull, JNull),
          Payload(JNull, JNull, JNull, JStr("base64"), JStr(B64_abcd))}
MalformedPayloads ==
    {Payload(JInt(1), JStr("blob"), JInt(12), JStr("base64"), JStr(B64_abcd)),
     Payload(JStr("file"), JInt(1), JInt(12), JStr("base64"), JStr(B64_abcd)),
     Payload(JStr("file"), JStr("blob"), JBool(TRUE), JStr("base64"), JStr(B64_abcd)),
     Payload(JStr("file"), JStr("blob"), JStr("12"), JStr("base64"), JStr(B64_abcd)),
     Payload(JStr("file"), JStr("blob"), JInt(12), JBool(FALSE), JStr(B64_abcd)),
     Payload(JStr("file"), JStr("blob"), JInt(12), JStr("base64"), JList(<<>>)),
     JList(<<>>), NotJson}
ContentAnswers ==
    {ContentAnswer(status_code, JNull) : status_code \in {404, 403, 429}}
    \cup {ContentAnswer(200, payload) : payload \in WellFormedPayloads \cup MalformedPayloads}
ResolveScenario ==
    [procs |-> {1}, fetches |-> 0, answers |-> ContentAnswers]

InitResolve ==
    /\ cache = DefaultCache
    /\ store = [k \in {} |-> Absent]
    /\ clock = 0
    /\ scenario = ResolveScenario
    /\ f = [p \in Procs |-> IdleFetch]
    /\ started = 0
    /\ netlog = [k \in {} |-> EmptyLog]
    /\ pure = [op |-> "none"]
    /\ call \in {ResolveCall(file, [base_sha |-> BaseSha, head_sha |-> HeadSha]) :
                    file \in ResolveFiles}
ResolveNext == ResolveBase \/ ResolveHead
SpecResolve == InitResolve /\ [][ResolveNext]_vars

\* fetch_pull_request_file_contents for the first files of a pull request
\* that modifies b.py, adds a.py, renames old.py and removes d/b.py
BatchList ==
    <<[path |-> <<"b", ".", "p", "y">>, status |-> "modified", previous_filename |-> NoPath],
      [path |-> <<"a", ".", "p", "y">>, status |-> "added", previous_filename |-> NoPath],
      [path |-> <<"c", ".", "p", "y">>, status |-> "renamed",
       previous_filename |-> <<"o", "l", "d", ".", "p", "y">>],
      [path |-> <<"d", "/", "b", ".", "p", "y">>, status |-> "removed",
       previous_filename |-> NoPath]>>
\* a pull request whose file list carries a status the resolver does not
\* know and renames without previous_filename
FallbackBatchList ==
    <<[path |-> <<"c", ".", "p", "y">>, status |-> "copied", previous_filename |-> NoPath],
      [path |-> <<"e", ".", "p", "y">>, status |-> "renamed", previous_filename |-> NoPath],
      [path |-> <<"g", ".", "p", "y">>, status |-> "", previous_filename |-> NoPath],
      [path |-> <<"h", ".", "p", "y">>, status |-> "renamed", previous_filename |-> NoPath]>>
BatchAnswers ==
    {ContentAnswer(404, JNull), ContentAnswer(403, JNull), ContentAnswer(502, JNull),
     ContentAnswer(200, FilePayload(JStr("base64"), JStr(B64_abcd))),
     ContentAnswer(200, FilePayload(JStr("base64"), JStr(B64_byte_255))),
     ContentAnswer(200, FilePayload(JStr("base64"), JList(<<>>))),
     ContentAnswer(200, NotJson)}
BatchScenario == [procs |-> {1}, fetches |-> 0, answers |-> BatchAnswers]

InitBatch ==
    /\ cache = DefaultCache
    /\ store = [k \in {} |-> Absent]
    /\ clock = 0
    /\ scenario = BatchScenario
    /\ f = [p \in Procs |-> IdleFetch]
    /\ started = 0
    /\ netlog = [k \in {} |-> EmptyLog]
    /\ pure = [op |-> "none"]
    /\ call \in {BatchCall(SubSeq(files, 1, n),
                            [base_sha |-> BaseSha, head_sha |-> HeadSha]) :
                    files \in {BatchList, FallbackBatchList},
                    n \in 1..(IF MaxBatchFiles < Len(BatchList)
                              THEN MaxBatchFiles ELSE Len(BatchList))}
SpecBatch == InitBatch /\ [][ResolveInBatch]_vars

\* the public fetchers called with well-formed and ill-formed arguments
RepoNames ==
    {<<"o", "/", "r">>, <<" ", "o", "/", "r", " ">>, <<"o">>, <<"/", "r">>,
     <<"o", "/">>, <<"o", "/", "r", "/", "x">>, <<"o", "/", "/", "r">>,
     <<" ", "/", " ">>, <<>>}
PrNumbers == {0 - 1, 0, 42}
ContentPaths == {<<"a", ".", "p", "y">>, <<"/", "a">>, <<"/">>, <<>>}
ContentRefs == {Sha40, BranchRef, <<>>}
FetcherCalls ==
    {FetcherCall(op, name, pr_number, <<>>, <<>>) :
        op \in PullRequestFetchers, name \in RepoNames, pr_number \in PrNumbers}
    \cup {FetcherCall("fetch_file_content_at_ref", name, 0, path, ref) :
            name \in RepoNames, path \in ContentPaths, ref \in ContentRefs}
\* a pull request payload as the API sends it
GoodMetadata ==
    [number |-> JInt(42), title |-> JStr("Fix race condition"),
     body |-> JStr("Details"), state |-> JStr("open"), draft |-> JBool(FALSE),
     html_url |-> JStr("https://github.com/acme/rocket/pull/42"),
     user |-> JDict([login |-> JStr("octocat")]),
     base |-> JDict([ref |-> JStr("main"), sha |-> JStr("base-sha")]),
     head |-> JDict([ref |-> JStr("feature/race-fix"), sha |-> JStr("head-sha")])]
\* what a field may hold instead: nothing, or a value of another kind
OtherValues ==
    {JNull, JInt(7), JBool(TRUE), JFloat(7), JStr("text"), JList(<<>>),
     JDict([login |-> JNull, ref |-> JNull, sha |-> JNull])}
MetadataPayloads ==
    {JDict(GoodMetadata), JList(<<JDict(GoodMetadata)>>), JStr("text"), JNull}
    \cup {JDict([GoodMetadata EXCEPT ![key] = value]) :
            key \in DOMAIN GoodMetadata, value \in OtherValues}
    \cup {JDict([GoodMetadata EXCEPT !.user = JDict([login |-> value])]) :
            value \in OtherValues}
    \cup {JDict([GoodMetadata EXCEPT !.base = JDict([ref |-> value, sha |-> JStr("base-sha")]),
                                     !.head = JDict([ref |-> JStr("topic"), sha |-> other])]) :
            value \in OtherValues, other \in {JStr("head-sha"), JNull}}
\* a row of the file list as the API sends it
GoodRow ==
    [filename |-> JStr("src/a.py"), status |-> JStr("modified"),
     additions |-> JInt(2), deletions |-> JInt(1), changes |-> JInt(3),
     patch |-> JStr(ExamplePatch.lines), previous_filename |-> JNull]
FilesPayloads ==
    {JList(<<>>), JList(<<JDict(GoodRow)>>), JDict(GoodRow), JNull,
     JList(<<JDict(GoodRow), JStr("text")>>)}
    \cup {JList(<<JDict(GoodRow), JDict([GoodRow EXCEPT ![key] = value])>>) :
            key \in DOMAIN GoodRow, value \in OtherValues \ {JStr("text")}}
    \cup {JList(<<JDict([GoodRow EXCEPT !.patch = JNull,
                                       !.previous_filename = JStr("src/old.py")])>>)}
FetcherScenario ==
    [procs |-> {1}, fetches |-> 0, answers |-> ContentAnswers,
     statuses |-> {200, 404, 429},
     metadata_payloads |-> MetadataPayloads,
     files_payloads |-> FilesPayloads,
     server |-> [total |-> 2, patchless_step |-> 2]]

InitFetchers ==
    /\ cache = DefaultCache
    /\ store = [k \in {} |-> Absent]
    /\ clock = 0
    /\ scenario = FetcherScenario
    /\ f = [p \in Procs |-> IdleFetch]
    /\ started = 0
    /\ netlog = [k \in {} |-> EmptyLog]
    /\ pure = [op |-> "none"]
    /\ call \in FetcherCalls
FetchersNext ==
    \/ ValidateArguments
    \/ FetchFileContent
    \/ FetchPullRequestMetadata
    \/ FetchPullRequestFiles
    \/ FetchPullRequestDiff
    \/ FetchMetadata
    \/ FetchFilesPage
    \/ FetchDiff
SpecFetchers == InitFetchers /\ [][FetchersNext]_vars

-----------------------------------------------------------------------------
(* schema.py: validation of ReviewResult, EvalResult and Issue.  A string  *)
(* is the sequence of its characters; the fields other than the one under  *)
(* validation hold valid values.                                           *)

IsDigit(c) == \E i \in 1..Len(Digits) : Digits[i] = c
\* \d+
AllDigits(text) == text # <<>> /\ \A i \in 1..Len(text) : IsDigit(text[i])

\* Field(pattern=r"^v\d+$") of schema_version
SCHEMA_VERSION_PATTERN_search(value) ==
    /\ Len(value) >= 2
    /\ value[1] = "v"
    /\ AllDigits(Tail(value))

\* L\d+-L\d+
RangePattern_fullmatch(text) ==
    LET dashes == {j \in 1..Len(text) : text[j] = "-"}
    IN  /\ Cardinality(dashes) = 1
        /\ LET j == CHOOSE d \in dashes : TRUE
           IN  /\ j >= 3
               /\ text[1] = "L"
               /\ AllDigits(SubSeq(text, 2, j - 1))
               /\ j + 2 <= Len(text)
               /\ text[j + 1] = "L"
               /\ AllDigits(SubSeq(text, j + 2, Len(text)))

\* EVIDENCE_HEADER_PATTERN = ^[^:\n]+:L\d+-L\d+$
EVIDENCE_HEADER_PATTERN_fullmatch(header) ==
    LET colons == {i \in 1..Len(header) : header[i] = ":"}
    IN  /\ Cardinality(colons) = 1
        /\ LET i == CHOOSE c \in colons : TRUE
           IN  /\ i >= 2
               /\ \A k \in 1..(i - 1) : header[k] # "\n"
               /\ RangePattern_fullmatch(SubSeq(header, i + 1, Len(header)))

\* Issue.validate_evidence_snippet: TRUE when the value is returned, FALSE
\* when ValueError is raised
validate_evidence_snippet(value) ==
    LET parts == partition(value, "\n")
        header == parts[1]
        separator == parts[2]
        body == parts[3]
    IN  IF separator = <<>> \/ strip(body) = <<>>
        THEN FALSE
        ELSE EVIDENCE_HEADER_PATTERN_fullmatch(strip(header))

\* evidence_snippet: str = Field(min_length=1), then the field validator
IssueAccepts(evidence_snippet) ==
    Len(evidence_snippet) >= 1 /\ validate_evidence_snippet(evidence_snippet)

Validated_with(accepted) ==
    [op |-> "model_validate", model |-> pure.model, value |-> pure.value,
     valid |-> accepted]

\* ReviewResult.model_validate(payload)
ValidateReviewResult ==
    /\ pure.op = "payload"
    /\ pure.model = "ReviewResult"
    /\ pure' = Validated_with(SCHEMA_VERSION_PATTERN_search(pure.value))
    /\ UNCHANGED <<call, cache, store, clock, scenario, f, started, netlog>>

\* EvalResult.model_validate(payload)
ValidateEvalResult ==
    /\ pure.op = "payload"
    /\ pure.model = "EvalResult"
    /\ pure' = Validated_with(SCHEMA_VERSION_PATTERN_search(pure.value))
    /\ UNCHANGED <<call, cache, store, clock, scenario, f, started, netlog>>

\* Issue.model_validate(payload)
ValidateIssue ==
    /\ pure.op = "payload"
    /\ pure.model = "Issue"
    /\ pure' = Validated_with(IssueAccepts(pure.value))
    /\ UNCHANGED <<call, cache, store, clock, scenario, f, started, netlog>>

\* schema versions: every string of at most MaxVersionLen characters over
\* "v", "1", "2", "." and the strings the tests use
VersionAlphabet == {"v", "1", "2", "."}
VersionOne == <<"v", "e", "r", "s", "i", "o", "n", "-", "o", "n", "e">>
SchemaVersions ==
    UNION {[1..n -> VersionAlphabet] : n \in 0..MaxVersionLen}
        \cup {VersionOne, <<"v", "1", "0">>, <<"v", "1", ".", "1", "0">>}

\* evidence snippets: a header, then nothing, or a line break and a body
ExamplePath == <<"a", ".", "p", "y">>
RangeText(x, y) == <<"L">> \o Decimal(x) \o <<"-", "L">> \o Decimal(y)
HeaderLineNumbers == {1, 9, 10, MaxHeaderLine}
EvidenceHeaders ==
    {ExamplePath \o <<":">> \o RangeText(x, y) :
        x \in HeaderLineNumbers, y \in HeaderLineNumbers}
    \cup {ExamplePath \o <<":", "1", "0", "-", "1", "2">>,
          ExamplePath \o <<":", "L", "1", "0">>,
          ExamplePath \o RangeText(10, 12),
          <<":">> \o RangeText(10, 12),
          ExamplePath \o <<":">> \o ExamplePath \o <<":">> \o RangeText(10, 12),
          <<" ">> \o ExamplePath \o <<":">> \o RangeText(10, 12) \o <<" ">>,
          <<>>}

RECURSIVE BodyOf(_)
\* "\n".join of n lines "x"
BodyOf(n) ==
    IF n = 0 THEN <<>>
    ELSE IF n = 1 THEN <<"x">>
    ELSE BodyOf(n - 1) \o <<"\n", "x">>

EvidenceSnippets ==
    EvidenceHeaders
    \cup {header \o <<"\n">> \o BodyOf(n) :
            header \in EvidenceHeaders, n \in 0..MaxBodyLines}
    \cup {header \o <<"\n", " ", "\n", " ">> : header \in EvidenceHeaders}

InitSchema ==
    /\ cache = DefaultCache
    /\ store = [k \in {} |-> Absent]
    /\ clock = 0
    /\ scenario = [GeneralScenario EXCEPT !.fetches = 0]
    /\ f = [p \in Procs |-> IdleFetch]
    /\ started = 0
    /\ netlog = [k \in {} |-> EmptyLog]
    /\ pure \in {[op |-> "payload", model |-> m, value |-> v] :
                    m \in {"ReviewResult", "EvalResult"}, v \in SchemaVersions}
            \cup {[op |-> "payload", model |-> "Issue", value |-> v] :
                    v \in EvidenceSnippets}
    /\ call = NoCall

SchemaNext == ValidateReviewResult \/ ValidateEvalResult \/ ValidateIssue
SpecSchema == InitSchema /\ [][SchemaNext]_vars

-----------------------------------------------------------------------------
(* Vocabulary of the claims, stated without the model's own operators *)

\* "fresh (no expiry, or now < expires_at)"
FreshAsStated(row, now) == row.expires_at = NoTime \/ now < row.expires_at

\* "stale (expired, non-immutable)"
StaleAsStated(row, now) ==
    ~row.immutable /\ row.expires_at # NoTime /\ row.expires_at <= now

\* a stored 404 read by a caller that does not allow "not found"
IgnoredNotFound(p) ==
    f[p].row_at_start.status_code = 404 /\ ~f[p].allow_not_found

HasValidator(headers) ==
    headers.If_None_Match # None \/ headers.If_Modified_Since # None

\* new differs from old at most in fetched_at and expires_at of row k
TouchOnly(old, new, k) ==
    /\ DOMAIN new = DOMAIN old
    /\ \A x \in DOMAIN old :
        IF x = k
        THEN new[x] = [old[x] EXCEPT !.fetched_at = new[x].fetched_at,
                                     !.expires_at = new[x].expires_at]
        ELSE new[x] = old[x]

-----------------------------------------------------------------------------
(* C1 as stated: once an entry is stored, every later fetch of the same    *)
(* endpoint and accept header made while the entry is fresh returns the    *)
(* stored status and body and issues no network call.                      *)
C1_FreshEntryAlwaysServed ==
    \A p \in Procs :
        (/\ f[p].pc # "idle"
         /\ f[p].row_at_start # Absent
         /\ FreshAsStated(f[p].row_at_start, f[p].now))
        => /\ f[p].pc = "returned"
           /\ f[p].calls = 0
           /\ f[p].outcome.status_code = f[p].row_at_start.status_code
           /\ f[p].outcome.body = f[p].row_at_start.body

(* C1 amended: the same, for a fetch whose cache read succeeded and that   *)
(* does not ignore the entry (a stored 404 read with allowNotFound false   *)
(* is ignored and the request goes to the network).                        *)
C1_FreshUsableEntryServed ==
    \A p \in Procs :
        (/\ f[p].pc # "idle"
         /\ f[p].row_at_start # Absent
         /\ ~f[p].read_failed
         /\ ~IgnoredNotFound(p)
         /\ FreshAsStated(f[p].row_at_start, f[p].now))
        => /\ f[p].pc = "returned"
           /\ f[p].calls = 0
           /\ f[p].outcome.kind = "response"
           /\ f[p].outcome.status_code = f[p].row_at_start.status_code
           /\ f[p].outcome.body = f[p].row_at_start.body

C1_Witness ==
    \E p \in Procs :
        /\ f[p].pc = "returned"
        /\ f[p].row_at_start # Absent
        /\ f[p].row_at_start.expires_at # NoTime
        /\ f[p].now < f[p].row_at_start.expires_at
        /\ f[p].calls = 0
        /\ f[p].outcome.from_cache

-----------------------------------------------------------------------------
(* C3 as stated: a fetch with a stale entry issues a conditional request;  *)
(* on 304 it returns the cached status and body after exactly one network  *)
(* call, and the stored entry changes only by a touch of fetched_at and    *)
(* expires_at (no entry is created when the key is gone).                  *)
C3_StaleEntryIsRevalidated ==
    [][/\ \A p \in Procs :
            (/\ f'[p].pc # "idle"
             /\ f'[p].row_at_start # Absent
             /\ StaleAsStated(f'[p].row_at_start, f'[p].now))
            => /\ HasValidator(f'[p].request_headers)
               /\ (f'[p].pc \in {"returned", "raised"} /\ f'[p].statuses = <<304>>)
                    => /\ f'[p].pc = "returned"
                       /\ f'[p].calls = 1
                       /\ f'[p].outcome.status_code = f'[p].row_at_start.status_code
                       /\ f'[p].outcome.body = f'[p].row_at_start.body
       /\ \A p \in Procs :
            (/\ f[p].pc = "handle"
             /\ f'[p] # f[p]
             /\ f[p].row_at_start # Absent
             /\ StaleAsStated(f[p].row_at_start, f[p].now)
             /\ f[p].response.status_code = 304)
            => TouchOnly(store, store', Key(p))]_vars

(* C3 amended: a fetch that reads a stale entry it can use (not a 404      *)
(* ignored under allowNotFound false) sends If-None-Match when the entry   *)
(* has an ETag, else If-Modified-Since when it has a Last-Modified, and    *)
(* no validator when it has neither; on 304 it returns the cached status   *)
(* and body (after exactly one network call when the 304 is the first      *)
(* response), and the 304 step changes the store only by a touch of        *)
(* fetched_at and expires_at of that key, creating no entry.               *)
C3_UsableStaleEntryIsRevalidated ==
    [][/\ \A p \in Procs :
            (/\ f'[p].pc # "idle"
             /\ f'[p].row_at_start # Absent
             /\ ~f'[p].read_failed
             /\ ~(f'[p].row_at_start.status_code = 404 /\ ~f'[p].allow_not_found)
             /\ StaleAsStated(f'[p].row_at_start, f'[p].now))
            => LET me == f'[p]
                   row == me.row_at_start
                   headers == me.request_headers
               IN  /\ headers.If_None_Match = row.etag
                   /\ headers.If_Modified_Since =
                        (IF row.etag = None THEN row.last_modified ELSE None)
                   /\ me.calls >= 1 \/ me.pc = "request"
                   /\ (me.pc \in {"returned", "raised"}
                       /\ me.statuses[Len(me.statuses)] = 304)
                        => /\ me.pc = "returned"
                           /\ me.outcome.kind = "response"
                           /\ me.outcome.status_code = row.status_code
                           /\ me.outcome.body = row.body
                           /\ me.statuses = <<304>> => me.calls = 1
       /\ \A p \in Procs :
            (/\ f[p].pc = "handle"
             /\ f'[p] # f[p]
             /\ f[p].row_at_start # Absent
             /\ ~f[p].read_failed
             /\ ~IgnoredNotFound(p)
             /\ StaleAsStated(f[p].row_at_start, f[p].now)
             /\ f[p].response.status_code = 304)
            => /\ TouchOnly(store, store', Key(p))
               /\ Key(p) \in DOMAIN store
                    => /\ store'[Key(p)].fetched_at >= clock
                       /\ store'[Key(p)].expires_at > clock]_vars

\* a 304 answered from a stale entry that has an ETag
C3_Witness ==
    \E p \in Procs :
        /\ f[p].pc = "returned"
        /\ f[p].statuses = <<304>>
        /\ f[p].row_at_start # Absent
        /\ StaleAsStated(f[p].row_at_start, f[p].now)
        /\ f[p].request_headers.If_None_Match = "e1"
        /\ f[p].outcome.from_cache
        /\ f[p].outcome.status_code = 200

-----------------------------------------------------------------------------
-----------------------------------------------------------------------------
\* "addresses file content": /repos/{owner}/{repo}/contents/{path}
AddressesFileContent(endpoint) ==
    /\ Len(endpoint.path) >= 5
    /\ endpoint.path[1] = "repos"
    /\ endpoint.path[4] = "contents"

\* "an exact full-length hex commit id": 40 hexadecimal digits
FullLengthCommitId(ref) ==
    /\ Len(ref) = ShaMaxLen
    /\ \A i \in 1..Len(ref) : ref[i] \in LowerHex

RefOf(endpoint) ==
    IF \E i \in 1..Len(endpoint.query) : endpoint.query[i][1] = "ref"
    THEN endpoint.query[CHOOSE i \in 1..Len(endpoint.query) :
                            endpoint.query[i][1] = "ref"][2]
    ELSE <<>>

(* C8: policy_for_endpoint marks an endpoint immutable only if it          *)
(* addresses file content at an exact full-length hex commit id; file      *)
(* content at any other ref gets the non-immutable branch-content TTL, and *)
(* every non-content endpoint gets the non-immutable mutable TTL.          *)
C8_ImmutableOnlyAtFullLengthCommit ==
    pure.op = "policy_for_endpoint"
    => LET e == pure.endpoint
           pinned == AddressesFileContent(e) /\ FullLengthCommitId(RefOf(e))
       IN  /\ pure.policy.immutable => pinned
           /\ (AddressesFileContent(e) /\ ~pinned)
                => pure.policy = [ttl_seconds |-> cache.branch_content_ttl_seconds,
                                  immutable |-> FALSE]
           /\ ~AddressesFileContent(e)
                => pure.policy = [ttl_seconds |-> cache.mutable_ttl_seconds,
                                  immutable |-> FALSE]

-----------------------------------------------------------------------------
\* "the response's Retry-After value in seconds if that header is present,
\* numeric and non-negative, and otherwise 0.5 * 2^(k-1) seconds"
WaitAsStated(response, k) ==
    LET ra == response.retry_after
    IN  CASE ra.kind = "decimal" /\ ra.millis >= 0 -> [kind |-> "finite", millis |-> ra.millis]
          [] ra.kind = "inf" -> [kind |-> "inf", millis |-> 0]
          [] OTHER -> [kind |-> "finite", millis |-> 500 * (2 ^ (k - 1))]

(* C4: when attempt k receives a retryable status and attempts remain, the *)
(* wait before attempt k+1 is the Retry-After value when that header is    *)
(* present, numeric and non-negative, and 0.5 * 2^(k-1) seconds otherwise. *)
C4_WaitIsRetryAfterOrBackoff ==
    \A p \in Procs :
        f[p].pc = "sleep"
        => f[p].delay_seconds = WaitAsStated(f[p].response, f[p].attempt_number)

-----------------------------------------------------------------------------
(* C5: a fetch whose first network response has a status >= 400 that is    *)
(* neither 429 nor 5xx, and not a 404 under allowNotFound, fails after     *)
(* exactly one network call and no wait, raising an ApiError that carries  *)
(* that status code and the endpoint.                                      *)
C5_NonRetryableFailsFast ==
    \A p \in Procs :
        LET first == f[p].statuses[1]
        IN  (/\ f[p].statuses # <<>>
             /\ first >= 400
             /\ first # 429
             /\ ~(500 <= first /\ first <= 599)
             /\ ~(first = 404 /\ f[p].allow_not_found))
            => /\ f[p].pc \in {"handle", "raised"}
               /\ f[p].calls = 1
               /\ f[p].sleeps = <<>>
               /\ f[p].pc = "raised"
                    => f[p].outcome = [kind |-> "GitHubApiError",
                                       status_code |-> first,
                                       endpoint |-> f[p].endpoint]

C5_Witness ==
    \E p \in Procs :
        /\ f[p].pc = "raised"
        /\ f[p].statuses = <<404>>
        /\ ~f[p].allow_not_found
        /\ f[p].max_attempts = GITHUB_MAX_RETRIES
        /\ f[p].outcome.kind = "GitHubApiError"

-----------------------------------------------------------------------------
RetryableAsStated(status) == status = 429 \/ (500 <= status /\ status <= 599)

(* C6: one fetch never issues more than maxAttempts network calls; when    *)
(* every attempt receives a retryable status the fetch fails after exactly *)
(* maxAttempts calls and maxAttempts-1 waits, raising the RateLimitError   *)
(* variant when the final status is 429 and a plain ApiError otherwise.    *)
C6_AttemptsBoundedAndExhaustionTyped ==
    \A p \in Procs :
        /\ f[p].calls <= f[p].max_attempts
        /\ (/\ f[p].pc = "raised"
            /\ \A i \in 1..Len(f[p].statuses) : RetryableAsStated(f[p].statuses[i]))
           => /\ f[p].calls = f[p].max_attempts
              /\ Len(f[p].sleeps) = f[p].max_attempts - 1
              /\ f[p].outcome.kind =
                    (IF f[p].statuses[Len(f[p].statuses)] = 429
                     THEN "GitHubRateLimitError" ELSE "GitHubApiError")

-----------------------------------------------------------------------------
\* the entry key of a request, as the claims name it: endpoint and accept header
PinnedContentKeys ==
    {k \in DOMAIN netlog :
        AddressesFileContent(k[2]) /\ FullLengthCommitId(RefOf(k[2]))}

-----------------------------------------------------------------------------
-----------------------------------------------------------------------------
\* what a fetch without any cache produces when the server's last response
\* is r: r itself when r is a success or an allowed 404, the typed error
\* otherwise
CachelessResult(r, endpoint, allow_not_found) ==
    IF r.status_code < 400 \/ (allow_not_found /\ r.status_code = 404)
    THEN [kind |-> "response", status_code |-> r.status_code, body |-> r.body]
    ELSE [kind |-> IF r.status_code = 429 THEN "GitHubRateLimitError"
                   ELSE "GitHubApiError",
          status_code |-> r.status_code, body |-> NoBody]

ResultOf(outcome) ==
    [kind |-> outcome.kind, status_code |-> outcome.status_code,
     body |-> IF outcome.kind = "response" THEN outcome.body ELSE NoBody]

StorageFailed(fetch) == fetch.read_failed \/ fetch.write_failed

(* C10 as stated: when the cache read, upsert or touch fails with a        *)
(* storage error the fetch never raises it; a failed read is treated as a  *)
(* miss (an unconditional request follows), a failed write is a no-op, and *)
(* the response returned or error raised is the one a fetch without any    *)
(* cache produces for the same server responses.                           *)
C10_StorageErrorsAreInvisible ==
    [][/\ \A p \in Procs :
            LET me == f'[p]
            IN  (me.pc # "idle" /\ StorageFailed(me))
                => /\ me.outcome.kind # "sqlite3.Error"
                   /\ me.read_failed
                        => /\ ~HasValidator(me.request_headers)
                           /\ me.pc = "returned" => me.calls >= 1
                   /\ me.pc \in {"returned", "raised"}
                        => ResultOf(me.outcome) =
                             CachelessResult(me.response, me.endpoint,
                                             me.allow_not_found)
       /\ \A p \in Procs :
            (f[p].pc = "handle" /\ f'[p].write_failed) => store' = store]_vars

(* C10 amended: the storage error is never raised; a failed read is        *)
(* treated as a miss and the fetch then behaves as a fetch without a cache *)
(* for the same server responses; a failed write is a no-op on the store   *)
(* and the fetch returns what it returns when the write succeeds: the      *)
(* server's response after a failed upsert, the cached status and body     *)
(* after a failed touch on a 304 (not the 304 a cache-less fetch returns). *)
C10_StorageErrorsAreSwallowed ==
    [][/\ \A p \in Procs :
            LET me == f'[p]
                touched == /\ me.response.status_code = 304
                           /\ me.cache_entry # Absent
            IN  (me.pc # "idle" /\ StorageFailed(me))
                => /\ me.outcome.kind # "sqlite3.Error"
                   /\ me.read_failed
                        => /\ ~HasValidator(me.request_headers)
                           /\ me.cache_entry = Absent
                           /\ me.pc = "returned" => me.calls >= 1
                   /\ (me.pc \in {"returned", "raised"} /\ ~touched)
                        => ResultOf(me.outcome) =
                             CachelessResult(me.response, me.endpoint,
                                             me.allow_not_found)
                   /\ (me.pc \in {"returned", "raised"} /\ touched)
                        => /\ me.pc = "returned"
                           /\ ~me.read_failed
                           /\ me.outcome.status_code = me.row_at_start.status_code
                           /\ me.outcome.body = me.row_at_start.body
       /\ \A p \in Procs :
            (f[p].pc = "handle" /\ f'[p].write_failed) => store' = store]_vars

\* a fetch whose read failed although a fresh entry was stored, and whose
\* upsert failed too, returns the server's response
C10_Witness ==
    \E p \in Procs :
        /\ f[p].pc = "returned"
        /\ f[p].read_failed
        /\ f[p].write_failed
        /\ f[p].row_at_start # Absent
        /\ FreshAsStated(f[p].row_at_start, f[p].now)
        /\ f[p].calls = 1
        /\ f[p].outcome.body # f[p].row_at_start.body
        /\ store[Key(p)].body = f[p].row_at_start.body

-----------------------------------------------------------------------------
-----------------------------------------------------------------------------
(* Unified-diff reading of a patch, stated without the extractor: inside a *)
(* hunk a line whose first character is "+" is an added line and occupies  *)
(* the next head line, a line whose first character is a space is a        *)
(* context line and occupies the next head line, a line whose first        *)
(* character is "-" is a removed line and occupies none.                   *)
FirstChar(line) == IF line.text = <<>> THEN "" ELSE line.text[1]
IsHunkHeader(line) == line.head_start # NoLine
IsAddedLine(line) == ~IsHunkHeader(line) /\ FirstChar(line) = "+"
IsContextLine(line) == ~IsHunkHeader(line) /\ FirstChar(line) = " "
IsRemovedLine(line) == ~IsHunkHeader(line) /\ FirstChar(line) = "-"
InsideHunk(patch, i) == \E j \in 1..(i - 1) : IsHunkHeader(patch[j])

RECURSIVE AddedHeadLinesFrom(_, _, _)
AddedHeadLinesFrom(patch, i, counter) ==
    IF i > Len(patch) THEN {}
    ELSE IF IsHunkHeader(patch[i])
    THEN AddedHeadLinesFrom(patch, i + 1, patch[i].head_start)
    ELSE IF ~InsideHunk(patch, i)
    THEN AddedHeadLinesFrom(patch, i + 1, counter)
    ELSE IF IsAddedLine(patch[i])
    THEN {counter} \cup AddedHeadLinesFrom(patch, i + 1, counter + 1)
    ELSE IF IsContextLine(patch[i])
    THEN AddedHeadLinesFrom(patch, i + 1, counter + 1)
    ELSE AddedHeadLinesFrom(patch, i + 1, counter)

\* the head-line numbers of the added lines of a patch
AddedHeadLines(patch) == AddedHeadLinesFrom(patch, 1, 0)

\* the head-line numbers a range list covers
CoveredLines(ranges) ==
    UNION {ranges[i].line_start..ranges[i].line_end : i \in 1..Len(ranges)}

Parsed == pure.op = "parse_head_changed_ranges_from_patch"

(* C12: for every patch text each returned range has line_start <=         *)
(* line_end, the list is strictly ascending and non-overlapping (each      *)
(* line_start is greater than the previous line_end), and an added-line    *)
(* run interrupted by a context or removed line gives separate ranges.     *)
C12_RangesAscendingAndSplit ==
    Parsed
    => LET ranges == pure.ranges
           patch == pure.patch
       IN  /\ \A i \in 1..Len(ranges) : ranges[i].line_start <= ranges[i].line_end
           /\ \A i \in 2..Len(ranges) : ranges[i].line_start > ranges[i - 1].line_end
           /\ \A i \in 1..(Len(patch) - 2) :
                (/\ InsideHunk(patch, i)
                 /\ IsAddedLine(patch[i])
                 /\ IsContextLine(patch[i + 1]) \/ IsRemovedLine(patch[i + 1])
                 /\ IsAddedLine(patch[i + 2]))
                => Len(ranges) >= 2

(* C13: the result is exactly the maximal contiguous runs of added lines   *)
(* in head-file coordinates: the ranges cover exactly the head-line        *)
(* numbers of the added lines, and no two consecutive ranges are adjacent  *)
(* (previous line_end + 1 < next line_start).                              *)
C13_RangesAreMaximalAddedRuns ==
    Parsed
    => LET ranges == pure.ranges
       IN  /\ CoveredLines(ranges) = AddedHeadLines(pure.patch)
           /\ \A i \in 2..Len(ranges) :
                ranges[i - 1].line_end + 1 < ranges[i].line_start

(* C14: a patch with no added line inside a hunk gives an empty range      *)
(* list, and the list is non-empty whenever some hunk contains an added    *)
(* line.                                                                   *)
C14_EmptyExactlyWithoutAddedLines ==
    Parsed
    => LET some_added == \E i \in 1..Len(pure.patch) :
                            InsideHunk(pure.patch, i) /\ IsAddedLine(pure.patch[i])
       IN  (pure.ranges = <<>>) <=> ~some_added

-----------------------------------------------------------------------------
(* Snapshot building, stated against the rows the server holds.            *)
Snapshotting == call.op = "fetch_pull_request_snapshot"
FileListComplete == Snapshotting /\ call.resource \in {"diff", "done"}
SnapshotReturned == Snapshotting /\ call.pc = "returned"
IsFilesRequest(request) == request.endpoint.path[Len(request.endpoint.path)] = "files"
FilePageRequests(c) == SelectSeq(c.requests, IsFilesRequest)

\* the paths of the server's rows that carry no patch, in file order
PathsLackingPatch(server) ==
    LET paths == [i \in 1..server.total |-> i]
    IN  SelectSeq(paths, LAMBDA i : ~ServerRow(server, i).patch.present)

(* C15: for every row of the file list the produced file has               *)
(* changed_ranges equal to the extractor's result on the row's patch when  *)
(* a patch is present and empty when it is absent, and its binary flag is  *)
(* true exactly when the patch is absent; the patch "@@ -5,1 +5,2 @@",     *)
(* "-old", "+new_a", "+new_b" gives exactly the one range (5,6).           *)
C15_RowsBecomeFilesWithRanges ==
    Snapshotting
    => \A i \in 1..Len(call.files) :
          LET row == ServerRow(call.server, i)
              file == call.files[i]
          IN  /\ file.path = row.filename
              /\ file.patch = row.patch
              /\ row.patch.present
                    => file.changed_ranges
                         = parse_head_changed_ranges_from_patch(row.patch.lines)
              /\ ~row.patch.present => file.changed_ranges = <<>>
              /\ file.is_binary <=> ~row.patch.present
              /\ row.patch = ExamplePatch
                    => file.changed_ranges = <<ChangedRange(5, 6)>>

C15_Witness ==
    /\ SnapshotReturned
    /\ \E i \in 1..Len(call.files) : call.files[i].is_binary
    /\ \E i \in 1..Len(call.files) :
          call.files[i].patch = ExamplePatch /\ ~call.files[i].is_binary
    /\ \E i \in 1..Len(call.files) :
          call.files[i].patch = Patch(<<>>) /\ ~call.files[i].is_binary

(* C16: when the server holds N full pages of 100 rows followed by a last  *)
(* page of K rows (1 <= K <= 100) the file-list fetch yields exactly       *)
(* 100*N+K files in server order; it requests pages 1, 2, 3, ... one after *)
(* the other with page size 100, stops after the first page that has fewer *)
(* than 100 rows (an empty page included) and requests no page after it.   *)
C16_PagesFetchedUntilShortPage ==
    Snapshotting
    => LET pages == FilePageRequests(call)
           total == call.server.total
           first_short_page == (total \div 100) + 1
       IN  /\ \A i \in 1..Len(pages) :
                /\ parse_qs_get(pages[i].endpoint.query, "page") = <<Decimal(i)>>
                /\ parse_qs_get(pages[i].endpoint.query, "per_page")
                     = <<Decimal(100)>>
           /\ Len(pages) <= first_short_page
           /\ FileListComplete
                => /\ Len(pages) = first_short_page
                   /\ Len(call.files) = total
                   /\ \A i \in 1..total : call.files[i].path = ServerRow(call.server, i).filename

C16_Witness ==
    /\ FileListComplete
    /\ call.server.total = 100 * MaxFullPages + 100
    /\ Len(FilePageRequests(call)) = MaxFullPages + 2
    /\ Len(call.files) = 100 * MaxFullPages + 100

(* C17: the warning list of a snapshot is empty when every file has patch  *)
(* text; otherwise it holds exactly one aggregate warning, which states    *)
(* the number of files lacking patch text and lists the first min(5,       *)
(* count) such paths in file order, followed by an ellipsis exactly when   *)
(* more than 5 files lack patch text.                                      *)
C17_OneAggregateWarning ==
    SnapshotReturned
    => LET lacking == PathsLackingPatch(call.server)
           count == Len(lacking)
           warnings == call.outcome.warnings
       IN  IF count = 0 THEN warnings = <<>>
           ELSE /\ Len(warnings) = 1
                /\ warnings[1].count = count
                /\ warnings[1].displayed
                     = SubSeq(lacking, 1, IF count < 5 THEN count ELSE 5)
                /\ warnings[1].ellipsis <=> count > 5

C17_Witness ==
    /\ SnapshotReturned
    /\ Len(PathsLackingPatch(call.server)) > 5
    /\ call.outcome.warnings[1].ellipsis

\* the requests of a snapshot build come in the order metadata, file-list
\* pages, raw diff
InSnapshotOrder(c) ==
    LET requests == c.requests
        pull == PullEndpoint(c.owner, c.repo)
        IsMetadata(r) == r.endpoint = pull /\ r.accept_header = JSON_ACCEPT
        IsDiff(r) == r.endpoint = pull /\ r.accept_header = DIFF_ACCEPT
    IN  /\ Len(requests) >= 1 => IsMetadata(requests[1])
        /\ \A i \in 2..Len(requests) :
              \/ IsFilesRequest(requests[i])
              \/ /\ IsDiff(requests[i])
                 /\ i = Len(requests)
                 /\ i > 2
        /\ \A i \in 1..Len(requests) :
              ~HasContentsSegment(requests[i].endpoint.path)

IsApiError(outcome) == outcome.kind \in {"GitHubApiError", "GitHubRateLimitError"}

(* C18: building a snapshot fetches metadata, then the file-list pages,    *)
(* then the raw diff; when one of these fetches raises an ApiError the     *)
(* error leaves the build, no snapshot is returned, and no later resource  *)
(* is requested; a snapshot build never requests a file-contents endpoint. *)
C18_SnapshotOrderAndAbort ==
    [][Snapshotting
       => /\ call.pc = "running"
          /\ Len(call'.requests) = Len(call.requests) + 1
          /\ InSnapshotOrder(call')
          /\ call'.pc = "raised" <=> IsApiError(call'.outcome)
          /\ call'.pc = "returned" <=> call'.outcome.kind = "PullRequestSnapshot"
          /\ call'.pc = "returned"
                => /\ call'.requests[Len(call'.requests)].accept_header = DIFF_ACCEPT
                   /\ Len(call'.requests) >= 3]_vars

C18_Witness ==
    /\ Snapshotting
    /\ call.pc = "raised"
    /\ call.resource = "files"
    /\ call.page = 2
    /\ IsApiError(call.outcome)

-----------------------------------------------------------------------------
(* Content resolution, stated on the fetches a resolver call has issued.   *)
ResolvingFile(status) ==
    call.op = "resolve_pull_request_file_content" /\ call.file.status = status
ResolverFinished == call.pc \in {"returned", "raised"}
ResolverReturned == call.pc = "returned"
IsFetchOf(request, side, path, ref) ==
    /\ request.side = side
    /\ request.endpoint = ContentsEndpoint(call.owner, call.repo, path, ref)
IsAbsentMarker(content, ref, path) ==
    /\ ~content.exists
    /\ content.text = JNull
    /\ ~content.is_binary
    /\ content.ref = ref
    /\ content.path = path
Mentions(warnings, phrase) == \E i \in 1..Len(warnings) : warnings[i].kind = phrase
FetchedWarnings(result) ==
    (IF result.base.warning # NoWarning THEN <<result.base.warning>> ELSE <<>>)
    \o (IF result.head.warning # NoWarning THEN <<result.head.warning>> ELSE <<>>)

(* C19: for a file with status "added" the resolver issues exactly one     *)
(* content fetch, of the current path at the head revision, and never a    *)
(* base fetch; the base record is an absent marker and the warnings        *)
(* mention "added and absent at base".  For status "removed" it issues     *)
(* exactly one content fetch, of the path at the base revision, never a    *)
(* head fetch; the head record is an absent marker and the warnings        *)
(* mention "removed and absent at head".                                   *)
C19_AddedAndRemovedFetchOneSide ==
    LET file == call.file
        requests == call.requests
        result == call.outcome
    IN  /\ ResolvingFile("added")
              => /\ Len(requests) <= 1
                 /\ ResolverFinished => Len(requests) = 1
                 /\ \A i \in 1..Len(requests) :
                      IsFetchOf(requests[i], "head", file.path, call.metadata.head_sha)
                 /\ ResolverReturned
                      => /\ IsAbsentMarker(result.base, call.metadata.base_sha, file.path)
                         /\ Mentions(result.warnings, "is added and absent at base ref")
        /\ ResolvingFile("removed")
              => /\ Len(requests) <= 1
                 /\ ResolverFinished => Len(requests) = 1
                 /\ \A i \in 1..Len(requests) :
                      IsFetchOf(requests[i], "base", file.path, call.metadata.base_sha)
                 /\ ResolverReturned
                      => /\ IsAbsentMarker(result.head, call.metadata.head_sha, file.path)
                         /\ Mentions(result.warnings, "is removed and absent at head ref")

C19_Witness ==
    /\ ResolvingFile("added")
    /\ ResolverReturned
    /\ Len(call.requests) = 1
    /\ call.outcome.head.exists
    /\ ~call.outcome.base.exists

(* C20: for a file with status "renamed" the resolver fetches the recorded *)
(* previous path at the base revision and then the current path at the     *)
(* head revision and adds no warning of its own; when no previous path is  *)
(* recorded the base fetch uses the current path and a fallback warning is *)
(* emitted.                                                                *)
C20_RenamedFetchesPreviousThenCurrent ==
    ResolvingFile("renamed")
    => LET file == call.file
           requests == call.requests
           recorded == file.previous_filename # NoPath
           base_path == IF recorded THEN file.previous_filename ELSE file.path
       IN  /\ Len(requests) <= 2
           /\ Len(requests) >= 1
                => IsFetchOf(requests[1], "base", base_path, call.metadata.base_sha)
           /\ Len(requests) = 2
                => IsFetchOf(requests[2], "head", file.path, call.metadata.head_sha)
           /\ ResolverReturned
                => /\ Len(requests) = 2
                   /\ recorded
                        => call.outcome.warnings = FetchedWarnings(call.outcome)
                   /\ ~recorded
                        => /\ Len(call.outcome.warnings) = Len(FetchedWarnings(call.outcome)) + 1
                           /\ Mentions(call.outcome.warnings,
                                 "missing previous_filename; using current path for base fetch")

C20_Witness ==
    /\ ResolvingFile("renamed")
    /\ ResolverReturned
    /\ call.file.previous_filename # NoPath
    /\ call.file.previous_filename # call.file.path
    /\ call.requests[1].path = call.file.previous_filename
    /\ call.requests[2].path = call.file.path
    /\ call.outcome.warnings = <<>>

(* C21: every status string other than "added", "removed", "renamed" and   *)
(* "modified" makes the resolver take the fallback plan: it fetches the    *)
(* current path at the base revision and then at the head revision and     *)
(* emits a warning naming the unknown status; status "modified" runs the   *)
(* same two fetches with no warning of the resolver's own.  No status      *)
(* value skips both fetches.                                               *)
C21_UnknownStatusTakesFallbackPlan ==
    call.op = "resolve_pull_request_file_content"
    => LET file == call.file
           requests == call.requests
           unknown == file.status \notin {"added", "removed", "renamed", "modified"}
       IN  /\ ResolverFinished => Len(requests) >= 1
           /\ unknown \/ file.status = "modified"
                => /\ Len(requests) <= 2
                   /\ Len(requests) >= 1
                        => IsFetchOf(requests[1], "base", file.path, call.metadata.base_sha)
                   /\ Len(requests) = 2
                        => IsFetchOf(requests[2], "head", file.path, call.metadata.head_sha)
                   /\ ResolverReturned => Len(requests) = 2
           /\ ResolverReturned /\ file.status = "modified"
                => call.outcome.warnings = FetchedWarnings(call.outcome)
           /\ ResolverReturned /\ unknown
                => /\ Len(call.outcome.warnings) = Len(FetchedWarnings(call.outcome)) + 1
                   /\ call.outcome.warnings[1].kind = "Unknown file status"
                   /\ call.outcome.warnings[1].status = file.status

C21_Witness ==
    /\ ResolvingFile("copied")
    /\ ResolverReturned
    /\ Len(call.requests) = 2
    /\ call.outcome.warnings[1].kind = "Unknown file status"
    /\ call.outcome.base.exists
    /\ call.outcome.head.exists

-----------------------------------------------------------------------------
(* Batch resolution of file contents.                                      *)
Batching == call.op = "fetch_pull_request_file_contents"

(* C22: in a batch resolution of file contents a fetch or decoding problem *)
(* on one file (a non-retryable error status, exhausted retries, a         *)
(* malformed content payload) never fails the batch: no exception reaches  *)
(* the caller, and the batch returns a result for every file.              *)
C22_BatchNeverFails ==
    Batching
    => /\ call.pc # "raised"
       /\ call.pc = "returned"
            => Len(call.outcome.resolved_files) = Len(call.files)

-----------------------------------------------------------------------------
(* A single file-content fetch, stated on the answer of the server.        *)
ContentFetched ==
    /\ call.op = "fetch_file_content_at_ref"
    /\ call.pc \in {"returned", "raised"}
    /\ call.requests # <<>>

\* base64 text as RFC 4648 and MIME define it: line breaks apart, groups of
\* four characters of the alphabet, the last group padded with at most two
\* "="
WellFormedBase64(content) ==
    LET chars == SelectSeq(content, LAMBDA c : c \notin {10, 13})
        n == Len(chars)
    IN  /\ n % 4 = 0
        /\ \A i \in 1..n :
              \/ Base64Value(chars[i]) < 64
              \/ /\ chars[i] = Base64Pad
                 /\ i >= n - 1
                 /\ i = n - 1 => chars[n] = Base64Pad

IsTextRecord(record) ==
    /\ ~IsRaised(record)
    /\ record.exists
    /\ ~record.is_binary
    /\ IsStr(record.text)
    /\ record.warning = NoWarning
IsBinaryRecord(record) ==
    /\ ~IsRaised(record)
    /\ record.exists
    /\ record.is_binary
    /\ IsNone(record.text)
    /\ record.warning # NoWarning
IsAbsentRecord(record) ==
    /\ ~IsRaised(record)
    /\ ~record.exists
    /\ ~record.is_binary
    /\ IsNone(record.text)
    /\ record.warning = NoWarning

(* C23: a single file-content fetch classifies its response without        *)
(* raising: a 404 gives an absent record with no warning; a present entry  *)
(* whose declared type is not "file" gives a binary record with a warning; *)
(* undecodable base64 or bytes that are not valid UTF-8 give a binary      *)
(* record with a warning; base64 that decodes to valid UTF-8, or content   *)
(* declared utf-8, gives a text record with no warning; any other encoding *)
(* label gives a binary record with an "unsupported encoding" warning.     *)
C23_ContentIsClassified ==
    ContentFetched /\ (call.answer.status_code = 404 \/ call.answer.payload \in WellFormedPayloads)
    => LET payload == ValueOf(call.answer.payload)
           record == call.outcome
       IN  IF call.answer.status_code = 404 THEN IsAbsentRecord(record)
           ELSE IF IsStr(payload.type) /\ ValueOf(payload.type) # "file"
           THEN IsBinaryRecord(record)
           ELSE IF ~IsStr(payload.content) THEN ~IsRaised(record)
           ELSE IF payload.encoding = JStr("base64")
           THEN IF /\ WellFormedBase64(ValueOf(payload.content))
                   /\ utf8_decode(b64decode(ValueOf(payload.content)).bytes, 1, <<>>).ok
                THEN IsTextRecord(record)
                ELSE IsBinaryRecord(record)
           ELSE IF payload.encoding \in {JStr("utf-8"), JStr("utf8")}
           THEN IsTextRecord(record) /\ ValueOf(record.text) = ValueOf(payload.content)
           ELSE /\ IsBinaryRecord(record)
                /\ record.warning.kind = "Unsupported content encoding"

-----------------------------------------------------------------------------
(* The kinds the fields of the remote payloads must have, stated on the    *)
(* JSON kinds themselves.                                                  *)
HasKind(value, kind) ==
    CASE kind = "string" -> KindOf(value) = "str"
      [] kind = "integer" -> KindOf(value) = "int"
      [] kind = "boolean" -> KindOf(value) = "bool"
      [] kind = "object" -> KindOf(value) = "dict"
      [] OTHER -> KindOf(value) \in {"str", "NoneType"}
MetadataKinds ==
    [number |-> "integer", title |-> "string", body |-> "string or null",
     state |-> "string", draft |-> "boolean", html_url |-> "string",
     user |-> "object", base |-> "object", head |-> "object"]
NestedKinds == [user |-> {"login"}, base |-> {"ref", "sha"}, head |-> {"ref", "sha"}]
RowKinds ==
    [filename |-> "string", status |-> "string", additions |-> "integer",
     deletions |-> "integer", changes |-> "integer", patch |-> "string or null",
     previous_filename |-> "string or null"]

\* the names of the fields of a pull request object that are missing or of
\* the wrong kind
OffendingMetadataFields(p) ==
    {key \in DOMAIN MetadataKinds : ~HasKind(p[key], MetadataKinds[key])}
    \cup UNION {{key \in NestedKinds[outer] : ~HasKind(ValueOf(p[outer])[key], "string")} :
                  outer \in {o \in DOMAIN NestedKinds : HasKind(p[o], "object")}}
OffendingRowFields(row) == {key \in DOMAIN RowKinds : ~HasKind(row[key], RowKinds[key])}

Answered(op) ==
    /\ call.op = op
    /\ call.pc \in {"returned", "raised"}
    /\ call.requests # <<>>
    /\ call.answer.status_code = 200
\* the call failed with the malformed-response error for its endpoint
IsMalformedResponseError ==
    /\ call.pc = "raised"
    /\ call.outcome.kind = "GitHubApiError"
    /\ call.outcome.status_code = 500
    /\ call.outcome.endpoint = call.requests[Len(call.requests)].endpoint

(* C24: every field consumed from a remote JSON payload is kind-checked    *)
(* before use: when a required field of the pull request metadata or of a  *)
(* file row is missing or has the wrong JSON kind (a boolean is not        *)
(* accepted where an integer is expected), or the envelope is not the      *)
(* expected object or array of objects, the fetch fails with the           *)
(* malformed-response error that identifies the endpoint and the offending *)
(* field, and no partly built record is returned.                          *)
C24_FieldsAreKindChecked ==
    /\ Answered("fetch_pull_request_metadata")
         => LET payload == call.answer.payload
            IN  IF ~HasKind(payload, "object")
                THEN IsMalformedResponseError
                ELSE IF OffendingMetadataFields(ValueOf(payload)) # {}
                THEN /\ IsMalformedResponseError
                     /\ call.outcome.field \in OffendingMetadataFields(ValueOf(payload))
                ELSE /\ call.pc = "returned"
                     /\ call.outcome.number = ValueOf(ValueOf(payload).number)
                     /\ call.outcome.draft = ValueOf(ValueOf(payload).draft)
                     /\ call.outcome.head_sha = ValueOf(ValueOf(ValueOf(payload).head).sha)
    /\ Answered("fetch_pull_request_files")
         => LET payload == call.answer.payload
                items == ValueOf(payload)
            IN  IF KindOf(payload) # "list"
                THEN IsMalformedResponseError
                ELSE IF \E i \in 1..Len(items) : ~HasKind(items[i], "object")
                THEN IsMalformedResponseError
                ELSE IF \E i \in 1..Len(items) : OffendingRowFields(ValueOf(items[i])) # {}
                THEN /\ IsMalformedResponseError
                     /\ \E i \in 1..Len(items) :
                          call.outcome.field \in OffendingRowFields(ValueOf(items[i]))
                ELSE /\ call.pc = "returned"
                     /\ Len(call.outcome.files) = Len(items)
                     /\ \A i \in 1..Len(items) :
                          /\ call.outcome.files[i].path = ValueOf(ValueOf(items[i]).filename)
                          /\ call.outcome.files[i].additions
                               = ValueOf(ValueOf(items[i]).additions)

C24_Witness ==
    /\ Answered("fetch_pull_request_files")
    /\ IsMalformedResponseError
    /\ call.outcome.field = "additions"
    /\ ValueOf(call.answer.payload)[2] = JDict([GoodRow EXCEPT !.additions = JBool(TRUE)])

-----------------------------------------------------------------------------
\* a repository identifier of the form owner/repo: surrounding white space
\* apart, one slash with text on both sides
IsOwnerSlashRepo(repo_full_name) ==
    LET text == strip(repo_full_name)
    IN  /\ Cardinality({i \in 1..Len(text) : text[i] = "/"}) = 1
        /\ text[1] # "/"
        /\ text[Len(text)] # "/"
InvalidArguments(c) ==
    \/ ~IsOwnerSlashRepo(c.repo_full_name)
    \/ c.op \in PullRequestFetchers /\ c.pr_number <= 0
    \/ c.op = "fetch_file_content_at_ref" /\ (c.path = <<>> \/ c.ref = <<>>)

(* C25: fetching metadata, the file list, the diff or a snapshot with a    *)
(* repository identifier that is not of the form owner/repo or with a pull *)
(* request number <= 0, and fetching file content with an empty path or    *)
(* ref, raises the input error before any request is entered (the cache is *)
(* read and the network is called only inside a request), and nothing      *)
(* follows the error: it is never retried.                                 *)
C25_InvalidArgumentsRaiseAtOnce ==
    [][/\ call.pc # "raised"
       /\ call.pc = "called" /\ InvalidArguments(call)
            => /\ call'.pc = "raised"
               /\ call'.outcome = GitHubInputError
               /\ call'.requests = <<>>]_vars

C25_Witness ==
    /\ call.op = "fetch_pull_request_snapshot"
    /\ call.pc = "raised"
    /\ call.outcome = GitHubInputError
    /\ IsOwnerSlashRepo(call.repo_full_name)
    /\ call.pr_number = 0
    /\ call.requests = <<>>

-----------------------------------------------------------------------------
(* C26: under any interleaving of concurrent fetches of one cache key      *)
(* sharing one store, every fetch completes with a response or a typed     *)
(* ApiError, never a storage error, and the stored row's status, body,     *)
(* ETag and Last-Modified always come from one single network response,    *)
(* that of the last fetch to write them; fields of different responses are *)
(* never mixed in one row.                                                 *)
Validated(row) ==
    <<row.status_code, row.body, row.etag, row.last_modified>>

\* the fetch of p stores its network response in this step
Upserts(p) ==
    /\ f[p].pc = "handle"
    /\ f'[p].pc = "returned"
    /\ ~f'[p].write_failed
    /\ ~f'[p].outcome.from_cache

C26_LastWriterWinsWholeRow ==
    [][/\ \A p \in Procs :
            f'[p].pc \in {"returned", "raised"}
            => f'[p].outcome.kind \in
                   {"response", "GitHubApiError", "GitHubRateLimitError"}
       /\ \A p \in Procs :
            Upserts(p)
            => /\ Key(p) \in DOMAIN store'
               /\ Validated(store'[Key(p)]) = Validated(f[p].response)
       /\ \A k \in DOMAIN store' :
            (k \notin DOMAIN store \/ Validated(store'[k]) # Validated(store[k]))
            => \E p \in Procs : Upserts(p) /\ Key(p) = k]_vars

\* two overlapping fetches of one key both stored their responses, which
\* differ in body and validators, and the row is the later writer's response
C26_Witness ==
    /\ \A p \in Procs :
            /\ f[p].pc = "returned"
            /\ f[p].row_at_start = Absent
            /\ ~f[p].read_failed /\ ~f[p].write_failed
            /\ ~f[p].outcome.from_cache
    /\ Key(1) = Key(2)
    /\ f[1].response.body # f[2].response.body
    /\ f[1].response.etag # f[2].response.etag
    /\ f[1].response.last_modified # f[2].response.last_modified
    /\ Key(2) \in DOMAIN store
    /\ Validated(store[Key(2)]) = Validated(f[2].response)

-----------------------------------------------------------------------------
(* C27: in every reachable cache state every stored entry satisfies: if it *)
(* is immutable it has no expires_at; otherwise its expires_at equals its  *)
(* fetched_at plus the TTL of the policy of its endpoint, after an upsert  *)
(* and after a revalidation touch alike.                                   *)
C27_ExpiryIsFetchedAtPlusTtl ==
    \A k \in DOMAIN store :
        LET row == store[k]
            policy == policy_for_endpoint(cache, row.endpoint)
        IN  IF row.immutable
            THEN row.expires_at = NoTime
            ELSE row.expires_at = row.fetched_at + policy.ttl_seconds

-----------------------------------------------------------------------------
(* C28: ReviewResult and EvalResult validation accepts schema_version "v1" *)
(* and the minor revisions of major version 1 ("v1.1", "v1.2"), and        *)
(* rejects every other major version ("v2") and every string that is not a *)
(* version ("version-one").                                                *)
IsMajorVersionOne(value) ==
    \/ value = <<"v", "1">>
    \/ /\ Len(value) >= 4
       /\ SubSeq(value, 1, 3) = <<"v", "1", ".">>
       /\ \A i \in 4..Len(value) : \E d \in 0..9 : value[i] = Decimal(d)[1]

C28_OnlyMajorVersionOne ==
    (pure.op = "model_validate" /\ pure.model \in {"ReviewResult", "EvalResult"})
    => (pure.valid <=> IsMajorVersionOne(pure.value))

-----------------------------------------------------------------------------
(* C29: Issue validation accepts an evidence_snippet only if its first     *)
(* line is a header of the form path:Lx-Ly with x <= y and the header is   *)
(* followed by at least one and at most five body lines; a snippet with no *)
(* body, a malformed header, a descending header range or more than five   *)
(* body lines is rejected.                                                 *)
\* the line breaks of a text
Breaks(text) == {i \in 1..Len(text) : text[i] = "\n"}

\* the first line, without surrounding white space
StatedHeader(value) ==
    strip(IF Breaks(value) = {} THEN value
          ELSE SubSeq(value, 1, (CHOOSE i \in Breaks(value) :
                                    \A j \in Breaks(value) : i <= j) - 1))

\* the number of lines after the first
StatedBodyLines(value) == Cardinality(Breaks(value))

\* the text after the first line holds something else than white space
StatedBodyPresent(value) ==
    /\ Breaks(value) # {}
    /\ \E i \in 1..Len(value) :
        /\ \E j \in Breaks(value) : j < i
        /\ ~IsSpace(value[i])

\* path:Lx-Ly with x <= y
AscendingHeader(header) ==
    \E x \in 0..MaxHeaderLine, y \in 0..MaxHeaderLine, n \in 1..Len(header) :
        /\ x <= y
        /\ \A i \in 1..n : header[i] \notin {":", "\n"}
        /\ SubSeq(header, n + 1, Len(header)) = <<":">> \o RangeText(x, y)

C29_EvidenceSnippetShape ==
    (pure.op = "model_validate" /\ pure.model = "Issue")
    => (pure.valid
        => /\ AscendingHeader(StatedHeader(pure.value))
           /\ StatedBodyPresent(pure.value)
           /\ StatedBodyLines(pure.value) <= 5)

-----------------------------------------------------------------------------
(* C30: a network request of a fetch carries a validator header only when  *)
(* a usable, stale, non-immutable cache entry exists: If-None-Match with   *)
(* the cached ETag when one is stored, otherwise If-Modified-Since with    *)
(* the cached Last-Modified when one is stored; it never carries both, it  *)
(* carries none when there is no entry, when the entry was ignored or when *)
(* the entry has neither validator, and every retry attempt of the fetch   *)
(* sends the same headers.                                                 *)
Stored(validator) == validator # None /\ validator # ""

\* the entry the fetch of "me" read and did not ignore, when it is stale
\* and not immutable
Revalidates(me) ==
    /\ me.row_at_start # Absent
    /\ ~me.read_failed
    /\ ~(me.row_at_start.status_code = 404 /\ ~me.allow_not_found)
    /\ ~me.row_at_start.immutable
    /\ ~FreshAsStated(me.row_at_start, me.now)

Sends(p) == f[p].pc = "request" /\ f'[p].pc = "handle"

C30_ValidatorsFollowTheEntry ==
    [][\A p \in Procs :
        /\ Sends(p)
            => LET me == f[p]
                   sent == me.request_headers
                   row == me.row_at_start
                   by_etag == Revalidates(me) /\ Stored(row.etag)
                   by_date == /\ Revalidates(me)
                              /\ ~Stored(row.etag)
                              /\ Stored(row.last_modified)
               IN  /\ sent.If_None_Match = IF by_etag THEN row.etag ELSE None
                   /\ sent.If_Modified_Since =
                          IF by_date THEN row.last_modified ELSE None
                   /\ sent.If_None_Match = None \/ sent.If_Modified_Since = None
        /\ (f[p].pc \in {"handle", "sleep"} /\ f'[p].pc \in {"sleep", "request"})
            => f'[p].request_headers = f[p].request_headers]_vars

\* the second attempt of a fetch that revalidates an entry stored with an
\* empty ETag and a Last-Modified has been sent with If-Modified-Since only
C30_Witness ==
    \E p \in Procs :
        /\ f[p].pc = "handle"
        /\ f[p].calls = 2
        /\ Revalidates(f[p])
        /\ f[p].row_at_start.etag = ""
        /\ f[p].request_headers.If_None_Match = None
        /\ f[p].request_headers.If_Modified_Since = f[p].row_at_start.last_modified
        /\ f[p].request_headers.If_Modified_Since # None

-----------------------------------------------------------------------------
(* C31: for every patch, the head-line number the extractor assigns to an  *)
(* added line equals the newStart of the most recent hunk header plus the  *)
(* number of added and context lines between that header and the line: a   *)
(* hunk header resets the counter and closes the open range, added and     *)
(* context lines each consume one head-line number, removed lines and      *)
(* no-newline markers consume none, and a no-newline marker leaves an open *)
(* range open.                                                             *)
IsNoNewlineMarker(line) == ~IsHunkHeader(line) /\ FirstChar(line) = "\\"

\* the extractor's locals when it reaches line i of the patch
ScannedBefore(patch, i) == ScanLines(ParserStart, SubSeq(patch, 1, i - 1), 1)

\* the most recent hunk header before line i
RecentHeader(patch, i) ==
    CHOOSE h \in 1..(i - 1) :
        /\ IsHunkHeader(patch[h])
        /\ \A j \in (h + 1)..(i - 1) : ~IsHunkHeader(patch[j])

\* newStart plus the added and context lines between the header and line i
StatedHeadLine(patch, i) ==
    LET h == RecentHeader(patch, i)
    IN  patch[h].head_start
          + Cardinality({j \in (h + 1)..(i - 1) :
                            IsAddedLine(patch[j]) \/ IsContextLine(patch[j])})

C31_HeadLineCountsAddedAndContext ==
    Parsed
    => LET patch == pure.patch
       IN  \A i \in 1..Len(patch) :
             LET before == ScannedBefore(patch, i)
                 after == ScannedBefore(patch, i + 1)
             IN  /\ (InsideHunk(patch, i) /\ IsAddedLine(patch[i]))
                    => /\ before.head_line = StatedHeadLine(patch, i)
                       /\ StatedHeadLine(patch, i) \in CoveredLines(pure.ranges)
                 /\ IsHunkHeader(patch[i])
                    => /\ after.head_line = patch[i].head_start
                       /\ after.range_start = NoLine
                 /\ (InsideHunk(patch, i) /\ IsNoNewlineMarker(patch[i]))
                    => after = before

-----------------------------------------------------------------------------
(* C32: a fetch made with allowNotFound false never returns a 404          *)
(* response: a cached 404 entry for the key is ignored, so the request     *)
(* goes to the network without validator headers even if that entry is     *)
(* fresh or immutable, and a 404 from the network raises ApiError.         *)
C32_NotFoundNeverReturnedUnlessAllowed ==
    \A p \in Procs :
        (f[p].pc # "idle" /\ ~f[p].allow_not_found)
        => /\ f[p].pc = "returned" => f[p].outcome.status_code # 404
           /\ (f[p].row_at_start # Absent /\ IgnoredNotFound(p))
                => /\ ~HasValidator(f[p].request_headers)
                   /\ f[p].pc = "returned"
                        => f[p].calls >= 1 /\ ~f[p].outcome.from_cache
                   /\ f[p].pc = "raised" => f[p].calls >= 1
           /\ (f[p].pc \in {"returned", "raised"}
                 /\ f[p].calls >= 1 /\ f[p].response.status_code = 404)
                => /\ f[p].pc = "raised"
                   /\ f[p].outcome.kind = "GitHubApiError"
                   /\ f[p].outcome.status_code = 404

\* a caller that does not allow "not found" found a stored immutable 404,
\* went to the network without validators and raised the 404 it received
C32_Witness ==
    \E p \in Procs :
        /\ f[p].pc = "raised"
        /\ ~f[p].allow_not_found
        /\ f[p].row_at_start # Absent
        /\ f[p].row_at_start.status_code = 404
        /\ f[p].row_at_start.immutable
        /\ FreshAsStated(f[p].row_at_start, f[p].now)
        /\ f[p].calls = 1
        /\ f[p].outcome.status_code = 404

-----------------------------------------------------------------------------
(* C33: a network response with status >= 400 (other than a 404 under      *)
(* allowNotFound) and every backoff wait leave the cache store unchanged;  *)
(* a fetch that ends by raising an ApiError has performed no cache write,  *)
(* and a previously stored entry for the key keeps all of its fields.      *)
FailureResponse(fetch) ==
    /\ fetch.response.status_code >= 400
    /\ ~(fetch.allow_not_found /\ fetch.response.status_code = 404)

C33_FailuresAndWaitsWriteNothing ==
    [][\A p \in Procs :
        /\ (f[p].pc = "handle" /\ f'[p] # f[p] /\ FailureResponse(f[p]))
            => store' = store
        /\ (f[p].pc = "sleep" /\ f'[p] # f[p]) => store' = store
        /\ (f'[p] # f[p] /\ f'[p].pc \in {"request", "handle", "sleep", "raised"})
            => store' = store
        /\ (f'[p] # f[p] /\ f'[p].pc = "raised"
              /\ f'[p].row_at_start # Absent /\ Key(p) \in DOMAIN store)
            => /\ Key(p) \in DOMAIN store'
               /\ store'[Key(p)] = store[Key(p)]]_vars

\* a fetch that revalidated a stale entry waited once, raised the typed
\* error of its last response, and the entry is as the fetch found it
C33_Witness ==
    \E p \in Procs :
        /\ f[p].pc = "raised"
        /\ f[p].outcome.kind \in {"GitHubApiError", "GitHubRateLimitError"}
        /\ f[p].sleeps # <<>>
        /\ f[p].row_at_start # Absent
        /\ ~FreshAsStated(f[p].row_at_start, f[p].now)
        /\ Key(p) \in DOMAIN store
        /\ CacheGet(store, Key(p)) = f[p].row_at_start

-----------------------------------------------------------------------------
(* C34: deleteExpired(now) removes exactly the entries whose expires_at is *)
(* present and <= now: it never removes an immutable or no-expiry entry,   *)
(* never removes an entry that the freshness test judges fresh at now, and *)
(* leaves no entry that is stale at now; the remaining entries are         *)
(* unchanged.                                                              *)
ExpiredAt(row, now) == row.expires_at # NoTime /\ row.expires_at <= now

\* "after" is what pruning "before" at "now" must leave
PrunedAsStated(before, after, now) ==
    /\ DOMAIN after = {k \in DOMAIN before : ~ExpiredAt(before[k], now)}
    /\ \A k \in DOMAIN after : after[k] = before[k]
    /\ \A k \in DOMAIN before :
        (before[k].immutable \/ before[k].expires_at = NoTime
            \/ FreshAsStated(before[k], now))
        => k \in DOMAIN after
    /\ \A k \in DOMAIN after : ~ExpiredAt(after[k], now)

\* a step of delete_expired: the store is the only variable it may change
Prunes == UNCHANGED <<cache, clock, scenario, f, started, netlog, pure, call>>

C34_DeleteExpiredRemovesExactlyTheExpired ==
    [][/\ Prunes => PrunedAsStated(store, store', clock)
       /\ \A now \in 0..MaxClock :
            PrunedAsStated(store, CacheDeleteExpired(store, now), now)]_vars

\* the entry a fetch stored has expired and been pruned, while an immutable
\* entry without expiry is still stored
C34_Witness ==
    \E p \in Procs :
        /\ f[p].pc = "returned"
        /\ ~f[p].outcome.from_cache
        /\ f[p].outcome.status_code = 200
        /\ Key(p) \notin DOMAIN store
        /\ \E k \in DOMAIN store :
              store[k].immutable /\ store[k].expires_at = NoTime

-----------------------------------------------------------------------------
(* C35: a batch resolution returns exactly one resolved record per input   *)
(* file, in input order, resolving the files one after the other; the      *)
(* aggregated warning list is the concatenation, in file order, of each    *)
(* file's warnings, and each file's warnings are, in this order, its       *)
(* synthetic status or fallback warning (if any), the base record's        *)
(* warning (if any) and the head record's warning (if any).                *)
StatedSyntheticKinds(file) ==
    IF file.status = "renamed" /\ file.previous_filename = NoPath
    THEN <<"missing previous_filename; using current path for base fetch">>
    ELSE IF file.status \notin {"added", "removed", "renamed", "modified"}
    THEN <<"Unknown file status">>
    ELSE <<>>

\* the warnings of one resolved record, as the claim orders them
WarningsInStatedOrder(file, record) ==
    /\ Len(record.warnings)
         = Len(StatedSyntheticKinds(file)) + Len(FetchedWarnings(record))
    /\ \A i \in 1..Len(StatedSyntheticKinds(file)) :
          /\ record.warnings[i].kind = StatedSyntheticKinds(file)[i]
          /\ record.warnings[i].path = file.path
    /\ \A i \in 1..Len(FetchedWarnings(record)) :
          record.warnings[Len(StatedSyntheticKinds(file)) + i]
            = FetchedWarnings(record)[i]

RECURSIVE Concatenated(_, _)
\* the warnings of the first n records, one record after the other
Concatenated(records, n) ==
    IF n = 0 THEN <<>> ELSE Concatenated(records, n - 1) \o records[n].warnings

C35_BatchKeepsOrderAndConcatenatesWarnings ==
    Batching
    => LET done == call.resolved_files
       IN  /\ Len(done) <= Len(call.files)
           /\ call.pc = "running" => call.index = Len(done) + 1
           /\ call.pc = "returned" => Len(done) = Len(call.files)
           /\ \A i \in 1..Len(done) :
                /\ done[i].path = call.files[i].path
                /\ done[i].status = call.files[i].status
                /\ WarningsInStatedOrder(call.files[i], done[i])
           /\ call.aggregated_warnings = Concatenated(done, Len(done))
           /\ call.pc = "returned"
                => /\ call.outcome.resolved_files = done
                   /\ call.outcome.aggregated_warnings = call.aggregated_warnings

\* a returned batch of two files: the first has a synthetic warning, a base
\* warning and a head warning, the second has warnings of its own
C35_Witness ==
    /\ Batching
    /\ call.pc = "returned"
    /\ Len(call.outcome.resolved_files) = 2
    /\ Len(call.outcome.resolved_files[1].warnings) = 3
    /\ call.outcome.resolved_files[1].base.warning # NoWarning
    /\ call.outcome.resolved_files[1].head.warning # NoWarning
    /\ call.outcome.resolved_files[1].base.warning
         # call.outcome.resolved_files[1].head.warning
    /\ Len(call.outcome.resolved_files[2].warnings) >= 2
    /\ Len(call.outcome.aggregated_warnings) >= 5

-----------------------------------------------------------------------------
(* C36: when a stale cache entry exists and its revalidation fails (a      *)
(* non-retryable status, or retryable statuses on every attempt), the      *)
(* fetch raises the typed error of the last response; the stale cached     *)
(* body is never returned as a fallback.                                   *)
Ended(fetch) == fetch.pc \in {"returned", "raised"}

\* the fetch read a stale entry it may use and went to the network with it
RevalidatesStale(fetch) ==
    /\ fetch.cache_entry # Absent
    /\ StaleAsStated(fetch.cache_entry, fetch.now)
    /\ fetch.statuses # <<>>

\* the last response is a failure the fetch does not retry, or every
\* response was a retryable failure
RevalidationFailed(fetch) ==
    /\ FailureResponse(fetch)
    /\ \/ ~_is_retryable_status(fetch.response.status_code)
       \/ \A i \in 1..Len(fetch.statuses) : _is_retryable_status(fetch.statuses[i])

C36_FailedRevalidationRaisesTypedError ==
    \A p \in Procs :
        (Ended(f[p]) /\ RevalidatesStale(f[p]) /\ RevalidationFailed(f[p]))
        => /\ f[p].pc = "raised"
           /\ f[p].outcome
                = _raise_http_error(f[p].response, f[p].endpoint)

-----------------------------------------------------------------------------
(* C37: for any sequence of server responses, a fetch never returns a      *)
(* response with status 304 to its caller and the cache never holds an     *)
(* entry whose stored status is 304: a 304 is only ever answered by        *)
(* returning a previously cached body.                                     *)
C37_NotModifiedNeverReturnedNorStored ==
    /\ \A k \in DOMAIN store : store[k].status_code # 304
    /\ \A p \in Procs :
        f[p].pc = "returned"
        => /\ f[p].outcome.status_code # 304
           /\ (f[p].statuses # <<>> /\ f[p].response.status_code = 304)
                => /\ f[p].cache_entry # Absent
                   /\ f[p].outcome.from_cache
                   /\ f[p].outcome.body = f[p].cache_entry.body

-----------------------------------------------------------------------------
(* C38: every file-content record produced by a content fetch or by the    *)
(* resolver satisfies: text present implies exists, not binary and no      *)
(* warning; binary implies exists, text absent and a warning present; not  *)
(* exists implies text, hash, size and encoding all absent and not binary. *)
RecordShape(record) ==
    /\ ~IsNone(record.text)
        => record.exists /\ ~record.is_binary /\ record.warning = NoWarning
    /\ record.is_binary
        => record.exists /\ IsNone(record.text) /\ record.warning # NoWarning
    /\ ~record.exists
        => /\ IsNone(record.text) /\ IsNone(record.sha)
           /\ IsNone(record.size_bytes) /\ IsNone(record.encoding)
           /\ ~record.is_binary

C38_RecordFieldsAgree ==
    /\ call.op = "resolve_pull_request_file_content"
        => /\ call.pc \in {"head", "returned"} => RecordShape(call.base_content)
           /\ call.pc = "returned"
                => /\ RecordShape(call.head_content)
                   /\ RecordShape(call.outcome.base)
                   /\ RecordShape(call.outcome.head)
    /\ \A answer \in scenario.answers :
        LET fetched == fetch_file_content_at_ref("acme", "rocket",
                          <<"a", ".", "p", "y">>, HeadSha, answer)
        IN  ~IsRaised(fetched.result) => RecordShape(fetched.result)

\* the resolver returned a binary base record and a text head record for a
\* modified file
C38_Witness ==
    /\ ResolvingFile("modified")
    /\ ResolverReturned
    /\ IsBinaryRecord(call.outcome.base)
    /\ IsTextRecord(call.outcome.head)
    /\ ~IsNone(call.outcome.head.sha)

\* the resolver returned the placeholder of an added file's base side
C38_WitnessAbsent ==
    /\ ResolvingFile("added")
    /\ ResolverReturned
    /\ ~call.outcome.base.exists
    /\ call.outcome.base.warning # NoWarning

-----------------------------------------------------------------------------
(* C39: range extraction is compositional over hunks: for any patch texts  *)
(* P1 and P2 where P2 begins with a hunk header, extract(P1 followed by a  *)
(* line break and P2) equals extract(P1) concatenated with extract(P2);    *)
(* lines that precede the first hunk header never affect the result.       *)

\* the lines of "P1 + line break + P2".  The line break ends the last line
\* of P1; when P1 is empty or already ends with a line break it makes an
\* empty line of its own.
JoinedLines(p1, ends_with_break, p2) ==
    IF p1 = <<>> \/ ends_with_break
    THEN p1 \o <<TextLine(<<>>)>> \o p2
    ELSE p1 \o p2

\* the patch from its first hunk header on, empty when it has none
FromFirstHeader(patch) ==
    IF \E h \in 1..Len(patch) : IsHunkHeader(patch[h])
    THEN LET h == CHOOSE h \in 1..Len(patch) :
                    /\ IsHunkHeader(patch[h])
                    /\ \A j \in 1..(h - 1) : ~IsHunkHeader(patch[j])
         IN  SubSeq(patch, h, Len(patch))
    ELSE <<>>

C39_ExtractionComposesOverHunks ==
    Parsed
    => LET patch == pure.patch
       IN  /\ \A i \in 1..Len(patch) :
                IsHunkHeader(patch[i])
                => LET p1 == SubSeq(patch, 1, i - 1)
                       p2 == SubSeq(patch, i, Len(patch))
                       composed == parse_head_changed_ranges_from_patch(p1)
                                     \o parse_head_changed_ranges_from_patch(p2)
                   IN  /\ pure.ranges = composed
                       /\ \A ends_with_break \in BOOLEAN :
                            parse_head_changed_ranges_from_patch(
                                JoinedLines(p1, ends_with_break, p2)) = composed
           /\ pure.ranges = parse_head_changed_ranges_from_patch(FromFirstHeader(patch))

\* a patch of two hunks was extracted: the first ends with an added line,
\* whose range the second hunk's header closes, and both give a range
C39_Witness ==
    /\ Parsed
    /\ Len(pure.patch) = 4
    /\ IsHunkHeader(pure.patch[1])
    /\ IsAddedLine(pure.patch[2])
    /\ IsHunkHeader(pure.patch[3])
    /\ pure.patch[1].head_start < pure.patch[3].head_start
    /\ Len(pure.ranges) = 2
    /\ parse_head_changed_ranges_from_patch(SubSeq(pure.patch, 1, 2)) # <<>>
    /\ parse_head_changed_ranges_from_patch(SubSeq(pure.patch, 3, 4)) # <<>>

-----------------------------------------------------------------------------
(* C40: inside a hunk, a line that starts with "+++" or "---", an empty    *)
(* line, and any line whose first character is none of "+", "-", space or  *)
(* backslash closes the open range and does not advance the head-line      *)
(* counter; such a line is never included in a range and the extractor     *)
(* stays inside the hunk (the hunk's declared line counts are never used   *)
(* to end it).                                                             *)
IsUnclassifiedLine(line) ==
    /\ ~IsHunkHeader(line)
    /\ \/ startswith(line.text, <<"+", "+", "+">>)
       \/ startswith(line.text, <<"-", "-", "-">>)
       \/ line.text = <<>>
       \/ FirstChar(line) \notin {"+", "-", " ", "\\"}

\* the ranges reported for the first i lines of the patch
RangesOfPrefix(patch, i) == parse_head_changed_ranges_from_patch(SubSeq(patch, 1, i))

C40_UnclassifiedLinesCloseTheRange ==
    Parsed
    => LET patch == pure.patch
       IN  \A i \in 1..Len(patch) :
             (InsideHunk(patch, i) /\ IsUnclassifiedLine(patch[i]))
             => LET before == ScannedBefore(patch, i)
                    after == ScannedBefore(patch, i + 1)
                IN  /\ before.in_hunk
                    /\ after.in_hunk
                    /\ after.head_line = before.head_line
                    /\ after.range_start = NoLine
                    /\ after.range_end = NoLine
                    /\ after.ranges = flush_open_range(before).ranges
                    /\ RangesOfPrefix(patch, i) = RangesOfPrefix(patch, i - 1)
                    /\ (i < Len(patch) /\ IsAddedLine(patch[i + 1])
                          /\ ~startswith(patch[i + 1].text, <<"+", "+", "+">>))
                        => ScannedBefore(patch, i + 2).range_start = before.head_line

\* an extracted hunk in which a line starting with "+++" stands between two
\* added lines: it split them into two ranges with consecutive head lines
C40_Witness ==
    /\ Parsed
    /\ Len(pure.patch) = 4
    /\ IsHunkHeader(pure.patch[1])
    /\ IsAddedLine(pure.patch[2]) /\ ~IsUnclassifiedLine(pure.patch[2])
    /\ IsUnclassifiedLine(pure.patch[3])
    /\ IsAddedLine(pure.patch[4]) /\ ~IsUnclassifiedLine(pure.patch[4])
    /\ Len(pure.ranges) = 2
    /\ pure.ranges[2].line_start = pure.ranges[1].line_end + 1

====
